---- MODULE Spec2Model ----
(***************************************************************************)
(* Model of the handing-exporter acquisition pipeline:                     *)
(*   - the strategy registry (src/src/downloaders/DownloaderFactory.ts),   *)
(*   - the manifest store (manifest.ts, src/unnamed/part_000),             *)
(*   - the per-post streaming loop of main() (src/src/index.ts).           *)
(*                                                                         *)
(* A URL is a string; the substring and regular-expression tests the code  *)
(* makes on it (url.includes(p), url.match(re)) are answered by the table  *)
(* UrlParts, which lists for every URL of the model the patterns of the    *)
(* code that occur in it.                                                  *)
(***************************************************************************)
EXTENDS Integers, Sequences, FiniteSets, TLC

(***************************************************************************)
(* Bounds of the model.                                                    *)
(***************************************************************************)
MaxCustom == 2      \* downloaders registered after the constructor's four
MaxRuns == 2        \* runs of main() over the same collection
MaxLinks == 2       \* external links an enriched post carries (SpecUnit)
MaxImages == 2      \* media URLs an enriched post carries (SpecUnit)
RunLinks == 1       \* external links an enriched post carries (Spec)
RunImages == 1      \* media URLs an enriched post carries (Spec)
MaxResults == 2     \* DownloadResults one gallery download() returns

(***************************************************************************)
(* URLs.                                                                   *)
(***************************************************************************)
UMail == "mailto:teacher@school.edu"
UImg == "https://cdn.files.io/a.jpg"
UVid == "https://cdn.files.io/b.mp4"
UPhotos == "https://photos.app.goo.gl/AbC"
UFolders == "https://drive.google.com/drive/folders/F1"
UDriveU == "https://drive.google.com/drive/u/0/my-drive"
UDriveFile == "https://drive.google.com/file/d/ID/view"
UYoutube == "https://youtu.be/xyz"

AllUrls == {UMail, UImg, UVid, UPhotos, UFolders, UDriveU, UDriveFile, UYoutube}

\* The patterns of the code that occur in each URL.
UrlParts(url) ==
    CASE url = UMail -> {"^mailto:", "root-domain$"}
      [] url = UImg -> {}
      [] url = UVid -> {"video-ext"}
      [] url = UPhotos -> {"photos.app.goo.gl"}
      [] url = UFolders -> {"drive.google.com/drive/folders"}
      [] url = UDriveU -> {"drive.google.com/drive/u/"}
      [] url = UDriveFile -> {"drive.google.com/file/d/"}
      [] url = UYoutube -> {"youtu.be/"}
      [] OTHER -> {}

includes(url, pattern) == pattern \in UrlParts(url)

(***************************************************************************)
(* Downloaders.  A downloader is a record: name, whether it implements the *)
(* optional getPriority(), the priority it returns, and, for a downloader  *)
(* registered by a caller, the URLs its canHandle accepts.                 *)
(***************************************************************************)
GalleryPriority == 10
DirectPriority == 0

GooglePhotosDownloader ==
    [name |-> "GooglePhotosDownloader", hasPriority |-> TRUE,
     priority |-> GalleryPriority, handles |-> {}]
GoogleDriveFolderDownloader ==
    [name |-> "GoogleDriveFolderDownloader", hasPriority |-> TRUE,
     priority |-> GalleryPriority, handles |-> {}]
GoogleDriveFileDownloader ==
    [name |-> "GoogleDriveFileDownloader", hasPriority |-> TRUE,
     priority |-> GalleryPriority, handles |-> {}]
DirectFileDownloader ==
    [name |-> "DirectFileDownloader", hasPriority |-> TRUE,
     priority |-> DirectPriority, handles |-> {}]

\* What a caller may hand to registerDownloader: any Downloader.
CustomPriorities == {-1, 10, 20}
CustomHandles == {AllUrls, {UImg, UPhotos}}
CustomDownloaders ==
    [name : {"CustomA", "CustomB"}, hasPriority : {TRUE},
     priority : CustomPriorities, handles : CustomHandles]
    \cup [name : {"CustomA", "CustomB"}, hasPriority : {FALSE},
          priority : {0}, handles : CustomHandles]

NullDownloader ==
    [name |-> "null", hasPriority |-> FALSE, priority |-> 0, handles |-> {}]

isGalleryLink(url) ==
    \/ includes(url, "photos.app.goo.gl")
    \/ includes(url, "photos.google.com/share")
    \/ includes(url, "drive.google.com/drive/folders")

NonDownloadablePatterns ==
    {"^mailto:", "youtube.com/watch", "youtube.com/live", "youtu.be/",
     "padlet.com/", "forms.google.com/", "docs.google.com/forms/",
     "zoom.us/", "meet.google.com/", "google.com/maps",
     "play.google.com", "apps.apple.com", "itunes.apple.com",
     "apps.microsoft.com", "chrome.google.com/webstore",
     "amazon-dp", "mercadolibre.com", "ebay.com/itm/",
     "facebook.com", "instagram.com/p/", "twitter.com",
     "linkedin.com/posts/", "linktr.ee/", "bit.ly/", "forms.gle/",
     "root-domain$"}

isNonDownloadableUrl(url) ==
    \E p \in NonDownloadablePatterns : includes(url, p)

canHandle(d, url) ==
    CASE d.name = "GooglePhotosDownloader" ->
            includes(url, "photos.app.goo.gl")
            \/ includes(url, "photos.google.com/share")
      [] d.name = "GoogleDriveFolderDownloader" ->
            includes(url, "drive.google.com/drive/folders")
            \/ includes(url, "drive.google.com/drive/u/")
      [] d.name = "GoogleDriveFileDownloader" ->
            includes(url, "drive.google.com/file/d/")
      [] d.name = "DirectFileDownloader" ->
            IF isGalleryLink(url) THEN FALSE
            ELSE IF isNonDownloadableUrl(url) THEN FALSE
            ELSE TRUE
      [] OTHER -> url \in d.handles

\* a.getPriority?.() ?? 0
getPriority(d) == IF d.hasPriority THEN d.priority ELSE 0

(***************************************************************************)
(* DownloaderFactory.                                                      *)
(***************************************************************************)
\* The constructor registers the four built-in downloaders in this order.
ConstructorDownloaders ==
    <<GooglePhotosDownloader, GoogleDriveFolderDownloader,
      GoogleDriveFileDownloader, DirectFileDownloader>>

\* this.downloaders.filter(d => d.canHandle(url))
RECURSIVE filterCanHandle(_, _)
filterCanHandle(ds, url) ==
    IF ds = <<>> THEN <<>>
    ELSE IF canHandle(Head(ds), url)
         THEN <<Head(ds)>> \o filterCanHandle(Tail(ds), url)
         ELSE filterCanHandle(Tail(ds), url)

comparePriorityAscending(a, b) == getPriority(a) - getPriority(b)

\* The comparator of candidates.sort: negative when a goes before b.
comparePriority(a, b) == getPriority(b) - getPriority(a)

\* Array.prototype.sort is stable: x goes after every element it does not
\* strictly precede.
RECURSIVE insertSorted(_, _)
insertSorted(x, sorted) ==
    IF sorted = <<>> THEN <<x>>
    ELSE IF comparePriority(x, Head(sorted)) < 0
         THEN <<x>> \o sorted
         ELSE <<Head(sorted)>> \o insertSorted(x, Tail(sorted))

RECURSIVE sortCandidates(_)
sortCandidates(cs) ==
    IF cs = <<>> THEN <<>>
    ELSE insertSorted(cs[Len(cs)], sortCandidates(SubSeq(cs, 1, Len(cs) - 1)))

getDownloaderLastWins(ds, url) ==
    LET candidates == filterCanHandle(ds, url)
        top == sortCandidates(candidates)
        best == {k \in 1..Len(candidates) :
                    getPriority(candidates[k]) = getPriority(top[1])}
    IN  IF Len(candidates) = 0 THEN NullDownloader
        ELSE candidates[CHOOSE k \in best : \A m \in best : m <= k]

getDownloader(ds, url) ==
    LET candidates == filterCanHandle(ds, url)
    IN  IF Len(candidates) = 0 THEN NullDownloader
        ELSE IF Len(candidates) = 1 THEN candidates[1]
        ELSE sortCandidates(candidates)[1]

\* What download(url, context) of each registered downloader can return.  Every
\* built-in downloader catches its own errors and returns at least one
\* result; the single-file ones return exactly one.
ResultStatuses == {"success", "failed"}

ResultLists(n) == UNION {[1..k -> ResultStatuses] : k \in 1..n}

downloadResults(d) ==
    CASE d.name = "DirectFileDownloader" -> ResultLists(1)
      [] d.name = "GoogleDriveFileDownloader" -> ResultLists(1)
      [] OTHER -> ResultLists(MaxResults)

(***************************************************************************)
(* Manifest store (manifest.ts).  A timestamp is a reading of the clock;   *)
(* Null stands for JSON null and Undefined for a JavaScript undefined.     *)
(***************************************************************************)
Null == 0
Undefined == "undefined"
GroupName == "Sala Roja"
ManifestVersion == "1.1.0"

EmptyMap == [x \in {} |-> 0]

createEmptyManifest(now) ==
    [metadata |-> [group_name |-> GroupName, created_at |-> now,
                   last_run |-> Null, total_posts |-> 0,
                   version |-> ManifestVersion],
     posts |-> EmptyMap,
     avatars |-> EmptyMap]

hasPost(m, postId) == postId \in DOMAIN m.posts

updatePostResetFirst(m, postId, postData, now) ==
    LET rec == [first_downloaded |-> now, last_updated |-> now] @@ postData
        posts == [x \in DOMAIN m.posts \cup {postId} |->
                     IF x = postId THEN rec ELSE m.posts[x]]
    IN  [m EXCEPT !.posts = posts,
                  !.metadata.total_posts = Cardinality(DOMAIN posts)]

\* { ...postData, first_downloaded: existing?.first_downloaded || now,
\*   last_updated: now }
updatePost(m, postId, postData, now) ==
    LET first == IF hasPost(m, postId) /\ "first_downloaded" \in DOMAIN m.posts[postId]
                    /\ m.posts[postId].first_downloaded # 0
                 THEN m.posts[postId].first_downloaded
                 ELSE now
        rec == [first_downloaded |-> first, last_updated |-> now] @@ postData
        posts == [x \in DOMAIN m.posts \cup {postId} |->
                     IF x = postId THEN rec ELSE m.posts[x]]
    IN  [m EXCEPT !.posts = posts,
                  !.metadata.total_posts = Cardinality(DOMAIN posts)]

\* manifest.avatars[author] = { author, url, filename, downloaded_at, status,
\*   error }: every key is written, error with the value undefined when the
\* caller passes none.
updateAvatar(m, author, avatarData, now) ==
    LET rec == [author |-> author, url |-> avatarData.url,
                filename |-> avatarData.filename, downloaded_at |-> now,
                status |-> avatarData.status, error |-> avatarData.error]
    IN  [m EXCEPT !.avatars = [a \in DOMAIN m.avatars \cup {author} |->
                                 IF a = author THEN rec ELSE m.avatars[a]]]

isPostCompleteTypo(m, postId) ==
    /\ hasPost(m, postId)
    /\ "status" \in DOMAIN m.posts[postId]
    /\ m.posts[postId].status = "completed"

isPostComplete(m, postId) ==
    /\ hasPost(m, postId)
    /\ "status" \in DOMAIN m.posts[postId]
    /\ m.posts[postId].status = "complete"

\* JSON.stringify drops the properties whose value is undefined;
\* JSON.parse gives back what was written.
StringFields == {"title", "url", "markdown_path", "status", "error"}

stringifyRecord(r) ==
    LET kept == {f \in DOMAIN r : ~(f \in StringFields /\ r[f] = Undefined)}
    IN  [f \in kept |-> r[f]]

stringify(m) ==
    [m EXCEPT !.posts = [x \in DOMAIN m.posts |-> stringifyRecord(m.posts[x])],
              !.avatars = [a \in DOMAIN m.avatars |->
                              stringifyRecord(m.avatars[a])]]

parse(data) == data

NoFile == [exists |-> FALSE]

\* saveManifest: refresh last_run on the manifest object, then serialize it.
touchLastRun(m, now) == [m EXCEPT !.metadata.last_run = now]

\* A manifest file whose content JSON.parse rejects.
MalformedFile == [exists |-> TRUE, malformed |-> TRUE]

\* readFile succeeds and JSON.parse throws a SyntaxError, which has no code
\* ENOENT and is thrown again.
loadManifestThrows(d) == d.exists /\ "data" \notin DOMAIN d

\* What loadManifest returns when it does not throw.
loadManifest(d, now) ==
    IF d.exists THEN parse(d.data) ELSE createEmptyManifest(now)

(***************************************************************************)
(* The posts of the timeline (extractAllPosts) and what the file organizer *)
(* derives from them.                                                      *)
(***************************************************************************)
Posts == <<"p1", "p2">>

PostIds == {Posts[k] : k \in 1..Len(Posts)}

\* titleLink ? titleLink.textContent.trim() : ''
PostTitle(id) == IF id = "p1" THEN "Acto de fin de curso" ELSE ""

PostUrl(id) == IF id = "p1" THEN "https://handing.co/posts/1"
               ELSE "https://handing.co/posts/2"

\* getPostFilePath(outputDir, post, generatePostFilename(post) + '.md')
getPostFilePath(id) == IF id = "p1" THEN "out/11-08-10-00-acto.md"
                       ELSE "out/11-09-09-30-p2.md"

\* enrichSinglePost extracts the media and the external links of a post; each
\* list holds distinct URLs (urls.includes / urlToName), and the two lists
\* are extracted independently of each other.
MediaUrls == {UImg, UVid}
LinkUrls == {UMail, UImg, UPhotos, UDriveU}

DistinctSeqs(S, n) ==
    UNION {{s \in [1..k -> S] : \A a, b \in 1..k : a # b => s[a] # s[b]} : k \in 0..n}

isVideoUrl(url) == includes(url, "video-ext")

RECURSIVE SelectSeqBy(_, _)
SelectSeqBy(s, wantVideo) ==
    IF s = <<>> THEN <<>>
    ELSE IF isVideoUrl(Head(s)) = wantVideo
         THEN <<Head(s)>> \o SelectSeqBy(Tail(s), wantVideo)
         ELSE SelectSeqBy(Tail(s), wantVideo)

Range(s) == {s[k] : k \in 1..Len(s)}

RECURSIVE CountIn(_, _)
CountIn(s, x) ==
    IF s = <<>> THEN 0
    ELSE (IF Head(s) = x THEN 1 ELSE 0) + CountIn(Tail(s), x)

successCountOf(results) == Cardinality({k \in 1..Len(results) : results[k] = "success"})

(***************************************************************************)
(* State.                                                                  *)
(***************************************************************************)
VARIABLES
    downloaders,       \* DownloaderFactory.downloaders, in registration order
    lastUrl,           \* the URL of the getDownloader calls made so far
    resolved,          \* what those calls returned, oldest first
    pc,                \* where main() stands; "idle" when no run is going on
    run,               \* number of runs started
    galleriesEnabled,  \* config.downloaders?.enableGalleries !== false
    i,                 \* index into Posts of the unit at hand
    manifest,          \* the manifest object in memory
    disk,              \* the manifest file
    inflight,          \* writes of the manifest file started and not finished
    files,             \* the markdown files that exist on disk
    clock,             \* new Date()
    unit,              \* the locals of the loop body for the unit at hand
    decision,          \* this run: what the resume check decided, per post
    ops,               \* this run: operations performed on behalf of each post
    finalRecord,       \* this run: the record the last updatePost wrote, per post
    runStart,          \* this run: the manifest as loaded
    saveLog,           \* this run: the units whose save finished, in time order
    limits,            \* sizes of the inputs explored: runs, links, images
    storeLog,          \* the last call made on the manifest store, and its effect
    retry,             \* the call of retryWithBackoff at hand
    groupRun,          \* main()'s loop over config.groups
    batch,             \* the call of downloadMediaBatch at hand
    session,           \* who uses the browser page and the network in a unit
    strategy,          \* the call of a downloader's download() at hand
    media,             \* the call of downloadMedia at hand
    avatarRun,         \* the avatar phases of main() over the runs
    scroll,            \* the progressive-scroll loop of an enumeration at hand
    tree,              \* the recursive enumeration of a folder at hand
    fileRun            \* the call of GoogleDriveFileDownloader.download at hand

callVars == <<batch, session, strategy, media, avatarRun,
             scroll,
             tree,
             fileRun>>

extVars == <<storeLog, retry, groupRun, callVars>>

regVars == <<downloaders, lastUrl, resolved>>

mainVars == <<pc, run, galleriesEnabled, i, manifest, disk, inflight, files,
              clock, unit, decision, ops, finalRecord, runStart, saveLog,
              limits, extVars>>

vars == <<downloaders, lastUrl, resolved, pc, run, galleriesEnabled, i,
          manifest, disk, inflight, files, clock, unit, decision, ops,
          finalRecord, runStart, saveLog, limits, extVars>>

MaxCalls == 2       \* getDownloader calls made on one registry

NoManifest == createEmptyManifest(0)

EmptyUnit ==
    [images |-> <<>>, links |-> <<>>, j |-> 1, processedUrls |-> {},
     imageFilenames |-> <<>>, videoFilenames |-> <<>>, galleryImages |-> <<>>,
     downloadedExternalFiles |-> <<>>, failedExternalLinks |-> <<>>,
     attempts |-> <<>>, failedDownloads |-> 0, threw |-> FALSE]

NoDecision == [kind |-> "none"]
NoOps == [enrich |-> FALSE, download |-> FALSE, update |-> FALSE, save |-> FALSE]
NoRecord == [status |-> "none"]

MainIdle ==
    /\ pc = "idle"
    /\ galleriesEnabled = TRUE
    /\ i = 1
    /\ manifest = NoManifest
    /\ inflight = {}
    /\ unit = EmptyUnit
    /\ decision = [id \in PostIds |-> NoDecision]
    /\ ops = [id \in PostIds |-> NoOps]
    /\ finalRecord = [id \in PostIds |-> NoRecord]
    /\ runStart = NoManifest
    /\ saveLog = <<>>

MainInit ==
    /\ MainIdle
    /\ limits = [runs |-> MaxRuns, links |-> RunLinks, images |-> RunImages]
    /\ run = 0
    /\ disk = NoFile
    /\ files = {}
    /\ clock = 1

RegInit ==
    /\ downloaders = ConstructorDownloaders
    /\ lastUrl = ""
    /\ resolved = <<>>

\* No call made on the manifest store.
NoStoreLog == [op |-> "none"]

\* No call of retryWithBackoff going on.
RetryIdle == [pc |-> "idle"]

\* main() not started.
GroupIdle == [pc |-> "idle"]

\* No call of downloadMediaBatch, download() or downloadMedia going on, no
\* unit using the page, no avatar phase run.
NotRunning == [pc |-> "idle"]

CallsIdle ==
    /\ batch = NotRunning
    /\ session = NotRunning
    /\ strategy = NotRunning
    /\ media = NotRunning
    /\ avatarRun = NotRunning
    /\ scroll = NotRunning
    /\ tree = NotRunning
    /\ fileRun = NotRunning

ExtIdle ==
    /\ storeLog = NoStoreLog
    /\ retry = RetryIdle
    /\ groupRun = GroupIdle
    /\ CallsIdle

Init == RegInit /\ MainInit /\ ExtIdle

\* One run, with the full range of unit contents.
UnitInit ==
    /\ RegInit
    /\ ExtIdle
    /\ MainIdle
    /\ limits = [runs |-> 1, links |-> MaxLinks, images |-> MaxImages]
    /\ run = 0
    /\ disk = NoFile
    /\ files = {}
    /\ clock = 1

(***************************************************************************)
(* DownloaderFactory operations.                                           *)
(***************************************************************************)
registerDownloader(d) ==
    /\ Len(downloaders) < Len(ConstructorDownloaders) + MaxCustom
    /\ downloaders' = Append(downloaders, d)
    /\ lastUrl' = ""
    /\ resolved' = <<>>
    /\ UNCHANGED mainVars

GetDownloaderCall(url) ==
    /\ Len(resolved) < MaxCalls
    /\ lastUrl \in {"", url}
    /\ lastUrl' = url
    /\ resolved' = Append(resolved, getDownloader(downloaders, url))
    /\ UNCHANGED <<downloaders, mainVars>>

RegNext ==
    \/ \E d \in CustomDownloaders : registerDownloader(d)
    \/ \E url \in AllUrls : GetDownloaderCall(url)

SpecRegistry == Init /\ [][RegNext]_vars

(***************************************************************************)
(* main(): one run over the posts of the group.                            *)
(***************************************************************************)
cur == Posts[i]

AfterUnit == IF i + 1 <= Len(Posts) THEN "check" ELSE "done"

StartRun ==
    /\ pc = "idle"
    /\ run < limits.runs
    /\ run' = run + 1
    /\ galleriesEnabled' \in BOOLEAN
    /\ manifest' = loadManifest(disk, clock)
    /\ runStart' = manifest'
    /\ i' = 1
    /\ pc' = IF Len(Posts) >= 1 THEN "check" ELSE "done"
    /\ UNCHANGED <<disk, inflight, files, clock, unit, decision, ops,
                   finalRecord, saveLog, regVars, limits, extVars>>

recordedArtifactUnchecked(m, postId) ==
    /\ "markdown_path" \in DOMAIN m.posts[postId]
    /\ m.posts[postId].markdown_path # ""
    /\ m.posts[postId].markdown_path # Undefined

\* if (manifestPost.markdown_path) { await fs.access(manifestPost.markdown_path) ... }
recordedArtifactExists(m, postId) ==
    /\ "markdown_path" \in DOMAIN m.posts[postId]
    /\ m.posts[postId].markdown_path # ""
    /\ m.posts[postId].markdown_path # Undefined
    /\ m.posts[postId].markdown_path \in files

shouldSkip(m, postId) ==
    isPostComplete(m, postId) /\ recordedArtifactExists(m, postId)

\* What the resume check found: the status in the manifest, the recorded
\* path, whether a file is there.
Decide(kind) ==
    LET known == cur \in DOMAIN manifest.posts
        path == IF known /\ "markdown_path" \in DOMAIN manifest.posts[cur]
                THEN manifest.posts[cur].markdown_path ELSE ""
    IN  [kind |-> kind,
         status |-> IF known THEN manifest.posts[cur].status ELSE "unseen",
         path |-> path,
         exists |-> path \in files]

ResumeSkip ==
    /\ pc = "check"
    /\ shouldSkip(manifest, cur)
    /\ decision' = [decision EXCEPT ![cur] = Decide("skip")]
    /\ i' = i + 1
    /\ pc' = AfterUnit
    /\ UNCHANGED <<run, galleriesEnabled, manifest, disk, inflight, files,
                   clock, unit, ops, finalRecord, runStart, saveLog, regVars, limits, extVars>>

ResumeProcess ==
    /\ pc = "check"
    /\ ~shouldSkip(manifest, cur)
    /\ decision' = [decision EXCEPT ![cur] = Decide("process")]
    /\ pc' = "enrich"
    /\ UNCHANGED <<run, galleriesEnabled, i, manifest, disk, inflight, files,
                   clock, unit, ops, finalRecord, runStart, saveLog, regVars, limits, extVars>>

EnrichSinglePost ==
    /\ pc = "enrich"
    /\ \E images \in DistinctSeqs(MediaUrls, limits.images),
          links \in DistinctSeqs(LinkUrls, limits.links) :
          unit' = [EmptyUnit EXCEPT !.images = images, !.links = links]
    /\ ops' = [ops EXCEPT ![cur].enrich = TRUE]
    /\ pc' = "dirs"
    /\ UNCHANGED <<run, galleriesEnabled, i, manifest, disk, inflight, files,
                   clock, decision, finalRecord, runStart, saveLog, regVars, limits, extVars>>

createPostDirectories ==
    /\ pc = "dirs"
    /\ pc' = "images"
    /\ UNCHANGED <<run, galleriesEnabled, i, manifest, disk, inflight, files,
                   clock, unit, decision, ops, finalRecord, runStart, saveLog,
                   regVars, limits, extVars>>

createPostDirectoriesThrows ==
    /\ pc = "dirs"
    /\ unit' = [unit EXCEPT !.threw = TRUE]
    /\ pc' = "catch"
    /\ UNCHANGED <<run, galleriesEnabled, i, manifest, disk, inflight, files,
                   clock, decision, ops, finalRecord, runStart, saveLog,
                   regVars, limits, extVars>>

\* The filenames of the items of a batch whose result is a success.
RECURSIVE successesOf(_, _)
successesOf(urls, results) ==
    IF urls = <<>> THEN <<>>
    ELSE IF Head(results) = "success"
         THEN <<Head(urls)>> \o successesOf(Tail(urls), Tail(results))
         ELSE successesOf(Tail(urls), Tail(results))

RECURSIVE attemptsOf(_, _)
attemptsOf(urls, by) ==
    IF urls = <<>> THEN <<>>
    ELSE <<[url |-> Head(urls), by |-> by]>> \o attemptsOf(Tail(urls), by)

\* downloadMediaBatch over the URLs of the wanted kind: one result per item.
batchOutcome(u, urls, results, field) ==
    [u EXCEPT ![field] = successesOf(urls, results),
              !.attempts = @ \o attemptsOf(urls, "downloadMedia"),
              !.failedDownloads = @ + (Len(urls) - successCountOf(results))]

DownloadImages ==
    /\ pc = "images"
    /\ LET imageUrls == SelectSeqBy(unit.images, FALSE)
       IN  \E results \in [1..Len(imageUrls) -> ResultStatuses] :
             /\ unit' = batchOutcome(unit, imageUrls, results, "imageFilenames")
             /\ ops' = [ops EXCEPT ![cur].download = @ \/ Len(imageUrls) > 0]
    /\ pc' = "videos"
    /\ UNCHANGED <<run, galleriesEnabled, i, manifest, disk, inflight, files,
                   clock, decision, finalRecord, runStart, saveLog, regVars, limits, extVars>>

DownloadVideos ==
    /\ pc = "videos"
    /\ LET videoUrls == SelectSeqBy(unit.images, TRUE)
       IN  \E results \in [1..Len(videoUrls) -> ResultStatuses] :
             /\ unit' = batchOutcome(unit, videoUrls, results, "videoFilenames")
             /\ ops' = [ops EXCEPT ![cur].download = @ \/ Len(videoUrls) > 0]
    /\ pc' = IF Len(unit.links) > 0 THEN "links" ELSE "markdown"
    /\ UNCHANGED <<run, galleriesEnabled, i, manifest, disk, inflight, files,
                   clock, decision, finalRecord, runStart, saveLog, regVars, limits, extVars>>

\* const isGallery = downloader && downloader.getPriority && downloader.getPriority() > 0
isGalleryDownloader(d) ==
    d # NullDownloader /\ d.hasPriority /\ getPriority(d) > 0

\* STRATEGY 1 runs when the downloader is a gallery one and galleries are enabled.
usesGallery(d, enabled) == isGalleryDownloader(d) /\ enabled

\* STRATEGY 2 runs when nothing succeeded yet and the downloader has priority 0.
usesDirect(d, downloadSuccessful) ==
    ~downloadSuccessful /\ d # NullDownloader /\ getPriority(d) = 0

NotCalled == <<>>

\* Variants of the loop body: the no-downloader branch without its continue,
\* and the FINAL step left out.
processLinkNoContinue(u, link, d, enabled, r1, r2) ==
    LET seen == [u EXCEPT !.processedUrls = @ \cup {link}, !.j = @ + 1]
        gallery == usesGallery(d, enabled)
        gallerySuccess == gallery /\ successCountOf(r1) > 0
        direct == usesDirect(d, gallerySuccess)
        directSuccess == direct /\ Len(r2) > 0 /\ r2[1] = "success"
        a1 == IF gallery THEN <<[url |-> link, by |-> d.name]>> ELSE <<>>
        a2 == IF direct THEN <<[url |-> link, by |-> d.name]>> ELSE <<>>
        tried == [seen EXCEPT !.attempts = @ \o a1 \o a2]
    IN  IF d = NullDownloader
        THEN [seen EXCEPT !.failedExternalLinks = @ \o <<link, link>>]
        ELSE IF gallerySuccess
        THEN [tried EXCEPT !.galleryImages =
                 Append(@, [sourceUrl |-> link, images |-> successCountOf(r1)])]
        ELSE IF directSuccess
        THEN [tried EXCEPT !.downloadedExternalFiles = Append(@, link)]
        ELSE [tried EXCEPT !.failedExternalLinks = Append(@, link)]

processLinkNoFinal(u, link, d, enabled, r1, r2) ==
    LET seen == [u EXCEPT !.processedUrls = @ \cup {link}, !.j = @ + 1]
        gallery == usesGallery(d, enabled)
        gallerySuccess == gallery /\ successCountOf(r1) > 0
        direct == usesDirect(d, gallerySuccess)
        directSuccess == direct /\ Len(r2) > 0 /\ r2[1] = "success"
        a1 == IF gallery THEN <<[url |-> link, by |-> d.name]>> ELSE <<>>
        a2 == IF direct THEN <<[url |-> link, by |-> d.name]>> ELSE <<>>
        tried == [seen EXCEPT !.attempts = @ \o a1 \o a2]
    IN  IF d = NullDownloader
        THEN [seen EXCEPT !.failedExternalLinks = Append(@, link)]
        ELSE IF gallerySuccess
        THEN [tried EXCEPT !.galleryImages =
                 Append(@, [sourceUrl |-> link, images |-> successCountOf(r1)])]
        ELSE IF directSuccess
        THEN [tried EXCEPT !.downloadedExternalFiles = Append(@, link)]
        ELSE tried

\* One iteration of the external-links loop on a URL not processed before:
\* r1 and r2 are what the calls of downloader.download returned in STRATEGY 1
\* and STRATEGY 2 (NotCalled when the strategy did not run).
processLink(u, link, d, enabled, r1, r2) ==
    LET seen == [u EXCEPT !.processedUrls = @ \cup {link}, !.j = @ + 1]
        gallery == usesGallery(d, enabled)
        gallerySuccess == gallery /\ successCountOf(r1) > 0
        direct == usesDirect(d, gallerySuccess)
        directSuccess == direct /\ Len(r2) > 0 /\ r2[1] = "success"
        a1 == IF gallery THEN <<[url |-> link, by |-> d.name]>> ELSE <<>>
        a2 == IF direct THEN <<[url |-> link, by |-> d.name]>> ELSE <<>>
        tried == [seen EXCEPT !.attempts = @ \o a1 \o a2]
    IN  IF d = NullDownloader
        THEN [seen EXCEPT !.failedExternalLinks = Append(@, link)]
        ELSE IF gallerySuccess
        THEN [tried EXCEPT !.galleryImages =
                 Append(@, [sourceUrl |-> link, images |-> successCountOf(r1)])]
        ELSE IF directSuccess
        THEN [tried EXCEPT !.downloadedExternalFiles = Append(@, link)]
        ELSE [tried EXCEPT !.failedExternalLinks = Append(@, link)]

ProcessLink ==
    /\ pc = "links"
    /\ LET link == unit.links[unit.j]
           d == getDownloader(downloaders, link)
       IN  IF link \in unit.processedUrls
           THEN /\ unit' = [unit EXCEPT !.j = @ + 1]
                /\ ops' = ops
           ELSE \E r1 \in (IF usesGallery(d, galleriesEnabled)
                           THEN downloadResults(d) ELSE {NotCalled}) :
                \E r2 \in (IF usesDirect(d, usesGallery(d, galleriesEnabled)
                                            /\ successCountOf(r1) > 0)
                           THEN downloadResults(d) ELSE {NotCalled}) :
                  /\ unit' = processLink(unit, link, d, galleriesEnabled, r1, r2)
                  /\ ops' = [ops EXCEPT ![cur].download =
                                @ \/ Len(unit'.attempts) > Len(unit.attempts)]
    /\ pc' = IF unit.j + 1 <= Len(unit.links) THEN "links" ELSE "markdown"
    /\ UNCHANGED <<run, galleriesEnabled, i, manifest, disk, inflight, files,
                   clock, decision, finalRecord, runStart, saveLog, regVars, limits, extVars>>

\* writeMarkdownFile(postFilePath, ...), then the failed-links file when there
\* are failed links.
writeMarkdownFile ==
    /\ pc = "markdown"
    /\ files' = files \cup {getPostFilePath(cur)}
    /\ pc' = "update"
    /\ UNCHANGED <<run, galleriesEnabled, i, manifest, disk, inflight, clock,
                   unit, decision, ops, finalRecord, runStart, saveLog, regVars, limits, extVars>>

\* Either write can fail; the second one only after the post file was written.
writeMarkdownFileThrows ==
    /\ pc = "markdown"
    /\ \E written \in (IF Len(unit.failedExternalLinks) > 0 THEN BOOLEAN ELSE {FALSE}) :
         files' = IF written THEN files \cup {getPostFilePath(cur)} ELSE files
    /\ unit' = [unit EXCEPT !.threw = TRUE]
    /\ pc' = "catch"
    /\ UNCHANGED <<run, galleriesEnabled, i, manifest, disk, inflight, clock,
                   decision, ops, finalRecord, runStart, saveLog, regVars, limits, extVars>>

RECURSIVE sumImages(_)
sumImages(gs) ==
    IF gs = <<>> THEN 0 ELSE Head(gs).images + sumImages(Tail(gs))

\* The three counters of a post record are written and never read back by
\* the pipeline; the model keeps the fields and not their values.
countOf(n) == IF n >= 0 THEN "count" ELSE "NaN"

\* Variant of STEP 4 that leaves the path of the markdown file out.
completeDataNoPath(postId, u) ==
    [title |-> PostTitle(postId),
     url |-> PostUrl(postId),
     images_count |-> countOf(Len(u.imageFilenames) + sumImages(u.galleryImages)),
     videos_count |-> countOf(Len(u.videoFilenames)),
     external_links_count |-> countOf(Len(u.links)),
     status |-> "complete"]

\* The postData of STEP 4.
completeData(postId, u) ==
    [title |-> PostTitle(postId),
     url |-> PostUrl(postId),
     markdown_path |-> getPostFilePath(postId),
     images_count |-> countOf(Len(u.imageFilenames) + sumImages(u.galleryImages)),
     videos_count |-> countOf(Len(u.videoFilenames)),
     external_links_count |-> countOf(Len(u.links)),
     status |-> "complete"]

\* The postData of the per-unit catch.
failedData(postId) ==
    [title |-> PostTitle(postId),
     url |-> PostUrl(postId),
     status |-> "failed",
     error |-> "error.message"]

\* Variant whose total_posts counts the calls of updatePost.
UpdateWithCountingCalls(postData) ==
    /\ manifest' = [updatePost(manifest, cur, postData, clock) EXCEPT
                       !.metadata.total_posts = manifest.metadata.total_posts + 1]
    /\ clock' = clock + 1
    /\ finalRecord' = [finalRecord EXCEPT ![cur] = manifest'.posts[cur]]
    /\ ops' = [ops EXCEPT ![cur].update = TRUE]
    /\ pc' = "save"
    /\ UNCHANGED <<run, galleriesEnabled, i, disk, inflight, files, unit,
                   decision, runStart, saveLog, regVars, limits, extVars>>

UpdateWith(postData) ==
    /\ manifest' = updatePost(manifest, cur, postData, clock)
    /\ clock' = clock + 1
    /\ finalRecord' = [finalRecord EXCEPT ![cur] = manifest'.posts[cur]]
    /\ ops' = [ops EXCEPT ![cur].update = TRUE]
    /\ pc' = "save"
    /\ UNCHANGED <<run, galleriesEnabled, i, disk, inflight, files, unit,
                   decision, runStart, saveLog, regVars, limits, extVars>>

UpdatePostComplete ==
    /\ pc = "update"
    /\ UpdateWith(completeData(cur, unit))

\* Variant of the per-unit catch that gives up on the remaining posts.
UpdatePostFailedAbort ==
    /\ pc = "catch"
    /\ manifest' = updatePost(manifest, cur, failedData(cur), clock)
    /\ clock' = clock + 1
    /\ finalRecord' = [finalRecord EXCEPT ![cur] = manifest'.posts[cur]]
    /\ ops' = [ops EXCEPT ![cur].update = TRUE]
    /\ pc' = "done"
    /\ UNCHANGED <<run, galleriesEnabled, i, disk, inflight, files, unit,
                   decision, runStart, saveLog, regVars, limits, extVars>>

UpdatePostFailed ==
    /\ pc = "catch"
    /\ UpdateWith(failedData(cur))

\* Variant of the save that is not awaited: the loop goes on at once.
saveManifestNotAwaited ==
    /\ pc = "save"
    /\ manifest' = touchLastRun(manifest, clock)
    /\ inflight' = inflight \cup {[unit |-> i, data |-> stringify(manifest')]}
    /\ unit' = EmptyUnit
    /\ i' = i + 1
    /\ pc' = AfterUnit
    /\ UNCHANGED <<run, galleriesEnabled, disk, files, clock, decision, ops,
                   finalRecord, runStart, saveLog, regVars, limits, extVars>>

\* saveManifest up to the writeFile call: last_run is refreshed on the manifest
\* object and the content is serialized.
saveManifestBegin ==
    /\ pc = "save"
    /\ manifest' = touchLastRun(manifest, clock)
    /\ inflight' = inflight \cup {[unit |-> i, data |-> stringify(manifest')]}
    /\ pc' = "saving"
    /\ UNCHANGED <<run, galleriesEnabled, i, disk, files, clock, unit,
                   decision, ops, finalRecord, runStart, saveLog, regVars, limits, extVars>>

\* writeFile completes, the await returns and the loop goes on.
saveManifestEnd ==
    /\ pc = "saving"
    /\ \E w \in inflight :
         /\ disk' = [exists |-> TRUE, data |-> w.data]
         /\ inflight' = inflight \ {w}
         /\ saveLog' = Append(saveLog, w.unit)
    /\ ops' = [ops EXCEPT ![cur].save = TRUE]
    /\ unit' = EmptyUnit
    /\ i' = i + 1
    /\ pc' = AfterUnit
    /\ UNCHANGED <<run, galleriesEnabled, manifest, files, clock, decision,
                   finalRecord, runStart, regVars, limits, extVars>>

\* The process ends, at the end of main() or killed anywhere: what is in
\* memory is gone, a write not finished is not made.
ForgetMemory ==
    /\ pc' = "idle"
    /\ galleriesEnabled' = TRUE
    /\ i' = 1
    /\ manifest' = NoManifest
    /\ inflight' = {}
    /\ unit' = EmptyUnit
    /\ decision' = [id \in PostIds |-> NoDecision]
    /\ ops' = [id \in PostIds |-> NoOps]
    /\ finalRecord' = [id \in PostIds |-> NoRecord]
    /\ runStart' = NoManifest
    /\ saveLog' = <<>>
    /\ UNCHANGED <<run, disk, files, clock, regVars, limits, extVars>>

FinishRun ==
    /\ pc = "done"
    /\ ForgetMemory

Crash ==
    /\ pc \notin {"idle", "done"}
    /\ ForgetMemory

\* Somebody deletes an output file between two runs.
ExternalDelete ==
    /\ pc = "idle"
    /\ \E path \in files : files' = files \ {path}
    /\ UNCHANGED <<pc, run, galleriesEnabled, i, manifest, disk, inflight,
                   clock, unit, decision, ops, finalRecord, runStart, saveLog,
                   regVars, limits, extVars>>

Next ==
    \/ StartRun
    \/ ResumeSkip
    \/ ResumeProcess
    \/ EnrichSinglePost
    \/ createPostDirectories
    \/ createPostDirectoriesThrows
    \/ DownloadImages
    \/ DownloadVideos
    \/ ProcessLink
    \/ writeMarkdownFile
    \/ writeMarkdownFileThrows
    \/ UpdatePostComplete
    \/ UpdatePostFailed
    \/ saveManifestBegin
    \/ saveManifestEnd
    \/ FinishRun
    \/ Crash
    \/ ExternalDelete

Spec == Init /\ [][Next]_vars

\* A first run on a collection never seen: no record to skip, no file to lose.
NextUnit ==
    \/ StartRun
    \/ ResumeProcess
    \/ EnrichSinglePost
    \/ createPostDirectories
    \/ createPostDirectoriesThrows
    \/ DownloadImages
    \/ DownloadVideos
    \/ ProcessLink
    \/ writeMarkdownFile
    \/ writeMarkdownFileThrows
    \/ UpdatePostComplete
    \/ UpdatePostFailed
    \/ saveManifestBegin
    \/ saveManifestEnd
    \/ FinishRun
    \/ Crash

SpecUnit == UnitInit /\ [][NextUnit]_vars

(***************************************************************************)
(* The manifest store on its own: a caller that loads the manifest of the  *)
(* group, then updates posts, saves and loads in any order.                *)
(***************************************************************************)
MaxStoreCalls == 5  \* calls made on the manifest store

\* The postData the orchestrator passes to updatePost.
StoreData(id) == {completeData(id, EmptyUnit), failedData(id)}

StoreInit ==
    /\ RegInit
    /\ MainIdle
    /\ limits = [runs |-> 1, links |-> MaxLinks, images |-> MaxImages]
    /\ run = 0
    /\ disk \in {NoFile, MalformedFile}
    /\ files = {}
    /\ clock = 1
    /\ storeLog = [op |-> "none", prevOp |-> "none", n |-> 0, loaded |-> FALSE,
                   threw |-> FALSE, before |-> NoManifest, saved |-> NoManifest,
                   diskBefore |-> disk, id |-> "", data |-> EmptyMap, now |-> 0,
                   firstSet |-> [id \in PostIds |-> 0]]
    /\ retry = RetryIdle
    /\ groupRun = GroupIdle
    /\ CallsIdle

StoreCall(op) ==
    [storeLog EXCEPT !.op = op, !.prevOp = storeLog.op, !.n = storeLog.n + 1,
                     !.threw = FALSE, !.before = manifest, !.diskBefore = disk,
                     !.now = clock]

StoreUnchanged ==
    UNCHANGED <<pc, run, galleriesEnabled, i, inflight, files, unit, decision,
                ops, finalRecord, runStart, saveLog, regVars, limits, retry,
                groupRun, callVars>>

\* Variant of loadManifest that bootstraps an empty manifest on any error.
StoreLoadManifestResets ==
    /\ storeLog.n < MaxStoreCalls
    /\ clock' = clock + 1
    /\ disk' = disk
    /\ manifest' = IF loadManifestThrows(disk) THEN createEmptyManifest(clock)
                   ELSE loadManifest(disk, clock)
    /\ storeLog' =
         [StoreCall("loadManifest") EXCEPT
            !.loaded = TRUE,
            !.firstSet = [id \in PostIds |->
                            IF hasPost(manifest', id)
                            THEN manifest'.posts[id].first_downloaded
                            ELSE 0]]
    /\ StoreUnchanged

\* const manifest = await loadManifest(group.name)
StoreLoadManifest ==
    /\ storeLog.n < MaxStoreCalls
    /\ clock' = clock + 1
    /\ disk' = disk
    /\ IF loadManifestThrows(disk)
       THEN /\ manifest' = manifest
            /\ storeLog' = [StoreCall("loadManifest") EXCEPT !.threw = TRUE]
       ELSE /\ manifest' = loadManifest(disk, clock)
            /\ storeLog' =
                 [StoreCall("loadManifest") EXCEPT
                    !.loaded = TRUE,
                    !.firstSet = [id \in PostIds |->
                                    IF hasPost(manifest', id)
                                    THEN manifest'.posts[id].first_downloaded
                                    ELSE 0]]
    /\ StoreUnchanged

\* updatePost(manifest, postId, postData)
StoreUpdatePost(id, data) ==
    /\ storeLog.n < MaxStoreCalls
    /\ storeLog.loaded
    /\ clock' = clock + 1
    /\ disk' = disk
    /\ manifest' = updatePost(manifest, id, data, clock)
    /\ storeLog' =
         [StoreCall("updatePost") EXCEPT
            !.id = id, !.data = data,
            !.firstSet[id] = IF storeLog.firstSet[id] = 0 THEN clock
                             ELSE storeLog.firstSet[id]]
    /\ StoreUnchanged

\* await saveManifest(group.name, manifest)
StoreSaveManifest ==
    /\ storeLog.n < MaxStoreCalls
    /\ storeLog.loaded
    /\ clock' = clock + 1
    /\ manifest' = touchLastRun(manifest, clock)
    /\ disk' = [exists |-> TRUE, data |-> stringify(manifest')]
    /\ storeLog' = [StoreCall("saveManifest") EXCEPT !.saved = manifest]
    /\ StoreUnchanged

\* Somebody edits the manifest file by hand and leaves it unparsable.
StoreExternalEdit ==
    /\ storeLog.n < MaxStoreCalls
    /\ disk # MalformedFile
    /\ disk' = MalformedFile
    /\ storeLog' = StoreCall("edit")
    /\ UNCHANGED <<manifest, clock>>
    /\ StoreUnchanged

\* The post authors of the timeline and what downloadAvatarsBatch returns for
\* one of them: error is undefined when the download succeeded.
Authors == {"Ana"}
AvatarUrl == "https://handing.co/avatars/ana.jpg"
AvatarResults ==
    {[success |-> TRUE, filename |-> "ana.jpg", error |-> Undefined],
     [success |-> FALSE, filename |-> "ana.jpg", error |-> "HTTP 404: Not Found"]}

\* The avatarData main() passes to updateAvatar.
avatarDataOf(result) ==
    [url |-> AvatarUrl, filename |-> result.filename,
     status |-> IF result.success THEN "complete" ELSE "failed",
     error |-> result.error]

\* updateAvatar(manifest, author, {...})
StoreUpdateAvatar(author, result) ==
    /\ storeLog.n < MaxStoreCalls
    /\ storeLog.loaded
    /\ clock' = clock + 1
    /\ disk' = disk
    /\ manifest' = updateAvatar(manifest, author, avatarDataOf(result), clock)
    /\ storeLog' = StoreCall("updateAvatar")
    /\ StoreUnchanged

StoreNext ==
    \/ StoreLoadManifest
    \/ \E author \in Authors : \E result \in AvatarResults :
          StoreUpdateAvatar(author, result)
    \/ StoreExternalEdit
    \/ \E id \in PostIds : \E data \in StoreData(id) : StoreUpdatePost(id, data)
    \/ StoreSaveManifest

SpecStore == StoreInit /\ [][StoreNext]_vars

(***************************************************************************)
(* main()'s loop over config.groups, inside the try block whose catch ends *)
(* the process.  What happens to the posts of one group is the run modelled *)
(* above; here it is one step.                                             *)
(***************************************************************************)
Groups == <<"Sala Roja", "Sala Azul", "Sala Verde">>
GroupNames == {Groups[k] : k \in 1..Len(Groups)}

\* The manifest file of a group before the run.
GroupFiles == {NoFile, MalformedFile, [exists |-> TRUE, data |-> NoManifest]}

coreVars == <<pc, run, galleriesEnabled, i, manifest, disk, inflight, files,
              clock, unit, decision, ops, finalRecord, runStart, saveLog,
              limits>>

GroupInit ==
    /\ RegInit
    /\ MainIdle
    /\ limits = [runs |-> 1, links |-> MaxLinks, images |-> MaxImages]
    /\ run = 0
    /\ disk = NoFile
    /\ files = {}
    /\ clock = 1
    /\ storeLog = NoStoreLog
    /\ retry = RetryIdle
    /\ CallsIdle
    /\ \E fs \in [GroupNames -> GroupFiles] :
          groupRun = [pc |-> "idle", g |-> 1, manifestFile |-> fs,
                      loaded |-> {}, processed |-> {}, cause |-> "none"]

GroupUnchanged == UNCHANGED <<coreVars, regVars, storeLog, retry, callVars>>

\* main() up to the loop: configuration, browser, authentication.
GroupStart ==
    /\ groupRun.pc = "idle"
    /\ groupRun' = [groupRun EXCEPT !.pc = IF Len(Groups) >= 1 THEN "load"
                                           ELSE "done"]
    /\ GroupUnchanged

\* const manifest = await loadManifest(group.name)
GroupLoadManifest ==
    /\ groupRun.pc = "load"
    /\ ~loadManifestThrows(groupRun.manifestFile[Groups[groupRun.g]])
    /\ groupRun' = [groupRun EXCEPT
                      !.pc = "process",
                      !.loaded = groupRun.loaded \cup {Groups[groupRun.g]}]
    /\ GroupUnchanged

\* loadManifest throws: nothing in the loop catches it, the catch of main()
\* logs the error and calls process.exit(1).
GroupLoadManifestThrows ==
    /\ groupRun.pc = "load"
    /\ loadManifestThrows(groupRun.manifestFile[Groups[groupRun.g]])
    /\ groupRun' = [groupRun EXCEPT !.pc = "exit", !.cause = "loadManifest"]
    /\ GroupUnchanged

\* The rest of the loop body: navigation, extraction, avatars and the posts of
\* the group, each recorded and saved; then the next group.
GroupProcess ==
    /\ groupRun.pc = "process"
    /\ \E saved \in BOOLEAN :
         groupRun' = [groupRun EXCEPT
            !.processed = groupRun.processed \cup {Groups[groupRun.g]},
            !.manifestFile[Groups[groupRun.g]] =
                IF saved THEN [exists |-> TRUE, data |-> NoManifest]
                ELSE groupRun.manifestFile[Groups[groupRun.g]],
            !.g = groupRun.g + 1,
            !.pc = IF groupRun.g + 1 <= Len(Groups) THEN "load" ELSE "done"]
    /\ GroupUnchanged

\* navigateToGroup or extractAllPosts throws: same catch, same exit.
GroupProcessThrows ==
    /\ groupRun.pc = "process"
    /\ groupRun' = [groupRun EXCEPT !.pc = "exit", !.cause = "process"]
    /\ GroupUnchanged

GroupNext ==
    \/ GroupStart
    \/ GroupLoadManifest
    \/ GroupLoadManifestThrows
    \/ GroupProcess
    \/ GroupProcessThrows

SpecGroups == GroupInit /\ [][GroupNext]_vars

(***************************************************************************)
(* retryWithBackoff(fn, options).  An invocation of fn either resolves     *)
(* with a value or rejects with an error; sleeps lists the delays slept.   *)
(***************************************************************************)
MaxRetriesOption == 3   \* largest options.maxRetries explored

DefaultInitialDelay == 1000
DefaultMaxDelay == 10000
DefaultFactor == 2

RetryOptions ==
    [maxRetries : 0..MaxRetriesOption,
     initialDelay : {DefaultInitialDelay, 400},
     maxDelay : {DefaultMaxDelay, 1500},
     factor : {DefaultFactor, 3}]

FnValues == {"v1", "v2"}
FnErrors == {"ETIMEDOUT", "ECONNRESET"}

\* Math.pow(factor, attempt)
RECURSIVE pow(_, _)
pow(b, n) == IF n = 0 THEN 1 ELSE b * pow(b, n - 1)

\* Math.min(a, b)
min(a, b) == IF a < b THEN a ELSE b

\* Variant that caps nothing.
delayUncapped(opts, attempt) == opts.initialDelay * pow(opts.factor, attempt)

\* Math.min(initialDelay * Math.pow(factor, attempt), maxDelay)
delay(opts, attempt) ==
    min(opts.initialDelay * pow(opts.factor, attempt), opts.maxDelay)

\* The call has destructured its options and stands at the head of the loop.
RetryInit ==
    /\ RegInit
    /\ MainIdle
    /\ limits = [runs |-> 1, links |-> MaxLinks, images |-> MaxImages]
    /\ run = 0
    /\ disk = NoFile
    /\ files = {}
    /\ clock = 1
    /\ storeLog = NoStoreLog
    /\ groupRun = GroupIdle
    /\ CallsIdle
    /\ \E opts \in RetryOptions :
          retry = [pc |-> "loop", opts |-> opts, attempt |-> 0,
                   lastError |-> Undefined, outcomes |-> <<>>, sleeps |-> <<>>,
                   result |-> [kind |-> "none"]]

RetryUnchanged == UNCHANGED <<coreVars, regVars, storeLog, groupRun, callVars>>

\* return await fn(), fn resolving.
RetryFnResolves(v) ==
    /\ retry.pc = "loop"
    /\ retry.attempt < retry.opts.maxRetries
    /\ retry' = [retry EXCEPT
                   !.outcomes = Append(retry.outcomes, [ok |-> TRUE, value |-> v]),
                   !.result = [kind |-> "return", value |-> v],
                   !.pc = "done"]
    /\ RetryUnchanged

\* fn rejects: the catch keeps the error, sleeps unless this was the last
\* attempt, and the loop counts one more attempt.
RetryFnRejects(e) ==
    /\ retry.pc = "loop"
    /\ retry.attempt < retry.opts.maxRetries
    /\ retry' = [retry EXCEPT
                   !.outcomes = Append(retry.outcomes, [ok |-> FALSE, error |-> e]),
                   !.lastError = e,
                   !.sleeps = IF retry.attempt < retry.opts.maxRetries - 1
                              THEN Append(retry.sleeps,
                                          delay(retry.opts, retry.attempt))
                              ELSE retry.sleeps,
                   !.attempt = retry.attempt + 1]
    /\ RetryUnchanged

\* Variant that throws a new error once the attempts are used up.
RetryThrowsWrapped ==
    /\ retry.pc = "loop"
    /\ ~(retry.attempt < retry.opts.maxRetries)
    /\ retry' = [retry EXCEPT
                   !.result = [kind |-> "throw", error |-> "Max retries exceeded"],
                   !.pc = "done"]
    /\ RetryUnchanged

\* The loop is over: throw lastError.
RetryThrows ==
    /\ retry.pc = "loop"
    /\ ~(retry.attempt < retry.opts.maxRetries)
    /\ retry' = [retry EXCEPT
                   !.result = [kind |-> "throw", error |-> retry.lastError],
                   !.pc = "done"]
    /\ RetryUnchanged

RetryNext ==
    \/ \E v \in FnValues : RetryFnResolves(v)
    \/ \E e \in FnErrors : RetryFnRejects(e)
    \/ RetryThrows

SpecRetry == RetryInit /\ [][RetryNext]_vars

(***************************************************************************)
(* What the specifications below share: nothing of main() has run and no   *)
(* call on the registry, the manifest store or retryWithBackoff is made.   *)
(***************************************************************************)
BaseIdle ==
    /\ RegInit
    /\ MainIdle
    /\ limits = [runs |-> 1, links |-> MaxLinks, images |-> MaxImages]
    /\ run = 0
    /\ disk = NoFile
    /\ files = {}
    /\ clock = 1
    /\ storeLog = NoStoreLog
    /\ retry = RetryIdle
    /\ groupRun = GroupIdle

baseVars == <<coreVars, regVars, storeLog, retry, groupRun>>

(***************************************************************************)
(* downloadMediaBatch(mediaItems, {concurrency}): every item is handed to  *)
(* limit() in input order, and Promise.all collects the results.  limit is *)
(* p-limit: a call puts the work on a queue and schedules a microtask that *)
(* starts the head of the queue if fewer than `concurrency` are active;    *)
(* when an operation settles, the count goes down and the head of the      *)
(* queue, if any, starts at once.                                          *)
(***************************************************************************)
MaxBatch == 5        \* items of one batch
MaxConcurrency == 3  \* options.concurrency

NoValue == [status |-> "pending"]

\* What downloadMedia resolves with for item k: it is the k-th item's own
\* result; an item whose every attempt fails gives a failed result.
mediaResult(k, fails) ==
    IF k \in fails THEN [status |-> "failed", item |-> k]
    ELSE [status |-> "success", item |-> k]

\* The batches explored: every size, limit and set of permanently failing
\* items within the bounds, and the batch of ten items and two permanent
\* failures under the limit main() passes ({ concurrency: 5 }).
BatchInputs ==
    {[n |-> n, concurrency |-> c, fails |-> fails] :
        n \in 1..MaxBatch, c \in 1..MaxConcurrency, fails \in SUBSET (1..MaxBatch)}
    \cup {[n |-> 10, concurrency |-> 5, fails |-> {3, 8}]}

\* The positions an item can have in a batch.
BatchPositions == UNION {1..in.n : in \in BatchInputs}

\* The state right after mediaItems.map(...): n calls of limit() made.
BatchInit ==
    /\ BaseIdle
    /\ session = NotRunning
    /\ strategy = NotRunning
    /\ media = NotRunning
    /\ avatarRun = NotRunning
    /\ scroll = NotRunning
    /\ tree = NotRunning
    /\ fileRun = NotRunning
    /\ \E in \in BatchInputs :
          /\ in.fails \subseteq 1..in.n
          /\ batch = [pc |-> "running", n |-> in.n,
                      concurrency |-> in.concurrency, fails |-> in.fails,
                      queue |-> [k \in 1..in.n |-> k], microtasks |-> in.n,
                      active |-> {}, started |-> {},
                      values |-> [k \in 1..in.n |-> NoValue]]

BatchUnchanged == UNCHANGED <<baseVars, session, strategy, media, avatarRun,
        scroll,
        tree,
        fileRun>>

\* queue.dequeue()(): the head of the queue starts running.
startHead(b) ==
    [b EXCEPT !.queue = Tail(b.queue),
              !.active = b.active \cup {Head(b.queue)},
              !.started = b.started \cup {Head(b.queue)}]

\* Variant of the microtask that starts the head whatever the active count.
BatchMicrotaskUnbounded ==
    /\ batch.pc = "running"
    /\ batch.microtasks > 0
    /\ batch' = IF batch.queue # <<>>
                THEN [startHead(batch) EXCEPT !.microtasks = batch.microtasks - 1]
                ELSE [batch EXCEPT !.microtasks = batch.microtasks - 1]
    /\ BatchUnchanged

\* The microtask of one limit() call.
BatchMicrotask ==
    /\ batch.pc = "running"
    /\ batch.microtasks > 0
    /\ batch' = IF Cardinality(batch.active) < batch.concurrency
                   /\ batch.queue # <<>>
                THEN [startHead(batch) EXCEPT !.microtasks = batch.microtasks - 1]
                ELSE [batch EXCEPT !.microtasks = batch.microtasks - 1]
    /\ BatchUnchanged

\* The first position of values that is still pending.
firstPending(b) ==
    CHOOSE p \in 1..b.n :
        /\ b.values[p] = NoValue
        /\ \A q \in 1..(p - 1) : b.values[q] # NoValue

\* Variant that collects the results in the order of completion.
BatchSettlesPushing(k) ==
    /\ batch.pc = "running"
    /\ k \in batch.active
    /\ LET done == [batch EXCEPT
                      !.active = batch.active \ {k},
                      !.values[firstPending(batch)] = mediaResult(k, batch.fails)]
       IN  batch' = IF done.queue # <<>> THEN startHead(done) ELSE done
    /\ BatchUnchanged

\* downloadMedia of item k resolves: Promise.all keeps the value at the
\* position of the promise, and p-limit's next() starts the head of the queue.
BatchSettles(k) ==
    /\ batch.pc = "running"
    /\ k \in batch.active
    /\ LET done == [batch EXCEPT
                      !.active = batch.active \ {k},
                      !.values[k] = mediaResult(k, batch.fails)]
       IN  batch' = IF done.queue # <<>> THEN startHead(done) ELSE done
    /\ BatchUnchanged

\* Every promise has resolved: Promise.all resolves with the values.
BatchReturns ==
    /\ batch.pc = "running"
    /\ \A k \in 1..batch.n : batch.values[k] # NoValue
    /\ batch' = [batch EXCEPT !.pc = "returned"]
    /\ BatchUnchanged

BatchNext ==
    \/ BatchMicrotask
    \/ \E k \in BatchPositions : BatchSettles(k)
    \/ BatchReturns

SpecBatch == BatchInit /\ [][BatchNext]_vars

\* The event loop runs every microtask that is due, and every download
\* settles: fetch is aborted after the timeout.
SpecBatchLive == BatchInit /\ [][BatchNext]_vars /\ WF_vars(BatchNext)

(***************************************************************************)
(* One unit of main(): the image batch, then the video batch, then the     *)
(* external links one after the other.  A batch or a strategy that has     *)
(* been started stays in flight until its promise settles; main goes on    *)
(* only where the code awaits that promise.                                *)
(***************************************************************************)
MaxSessionLinks == 2   \* external links of the unit
MaxUnits == 2          \* posts processed one after the other

SessionUrls == {UMail, UImg, UPhotos, UFolders, UDriveFile}

\* downloadMediaBatch(..., { concurrency: 5 }) in both calls of main.
MainBatchConcurrency == 5

\* The strategies that drive the shared Playwright page.
PageStrategies ==
    {GooglePhotosDownloader.name, GoogleDriveFolderDownloader.name,
     GoogleDriveFileDownloader.name}

SessionInit ==
    /\ BaseIdle
    /\ batch = NotRunning
    /\ strategy = NotRunning
    /\ media = NotRunning
    /\ avatarRun = NotRunning
    /\ scroll = NotRunning
    /\ tree = NotRunning
    /\ fileRun = NotRunning
    /\ \E hasImages, hasVideos, enabled \in BOOLEAN :
       \E links \in DistinctSeqs(SessionUrls, MaxSessionLinks) :
          session = [pc |-> "images", unit |-> 1, hasImages |-> hasImages,
                     hasVideos |-> hasVideos, links |-> links,
                     enabled |-> enabled, j |-> 1,
                     inFlight |-> {}, running |-> {}]

SessionUnchanged == UNCHANGED <<baseVars, batch, strategy, media, avatarRun,
        scroll,
        tree,
        fileRun>>

\* if (imageUrls.length > 0) { ... downloadMediaBatch(imageBatchItems, ...) }
SessionStartImages ==
    /\ session.pc = "images"
    /\ session' =
          IF session.hasImages
          THEN [session EXCEPT !.pc = "awaitImages",
                   !.inFlight = @ \cup {[kind |-> "images",
                                         concurrency |-> MainBatchConcurrency]}]
          ELSE [session EXCEPT !.pc = "videos"]
    /\ SessionUnchanged

\* if (enrichedPost.videos && ...) { ... downloadMediaBatch(videoBatchItems, ...) }
SessionStartVideos ==
    /\ session.pc = "videos"
    /\ session' =
          IF session.hasVideos
          THEN [session EXCEPT !.pc = "awaitVideos",
                   !.inFlight = @ \cup {[kind |-> "videos",
                                         concurrency |-> MainBatchConcurrency]}]
          ELSE [session EXCEPT !.pc = "links"]
    /\ SessionUnchanged

\* Promise.all(downloads) of a batch in flight settles.
SessionBatchSettles ==
    /\ session.pc # "idle"
    /\ \E b \in session.inFlight :
          session' = [session EXCEPT !.inFlight = @ \ {b}]
    /\ SessionUnchanged

afterBatch(at) == IF at = "awaitImages" THEN "videos" ELSE "links"

\* A main that goes on without awaiting the batch it started.
SessionBatchNotAwaited ==
    /\ session.pc \in {"awaitImages", "awaitVideos"}
    /\ session' = [session EXCEPT !.pc = afterBatch(session.pc)]
    /\ SessionUnchanged

\* const imageResults = await downloadMediaBatch(...): main resumes once the
\* batch has settled.
SessionBatchAwaited ==
    /\ session.pc \in {"awaitImages", "awaitVideos"}
    /\ session.inFlight = {}
    /\ session' = [session EXCEPT !.pc = afterBatch(session.pc)]
    /\ SessionUnchanged

\* One pass of the external links loop up to the download() call: no
\* downloader, or a gallery downloader with galleries disabled, starts
\* nothing.
SessionStartLink ==
    /\ session.pc = "links"
    /\ session.j <= Len(session.links)
    /\ LET d == getDownloader(ConstructorDownloaders, session.links[session.j])
       IN  session' =
              IF usesGallery(d, session.enabled) \/ usesDirect(d, FALSE)
              THEN [session EXCEPT !.pc = "awaitStrategy",
                                   !.running = @ \cup {d.name}]
              ELSE [session EXCEPT !.j = @ + 1]
    /\ SessionUnchanged

\* The promise of downloader.download(...) settles.
SessionStrategySettles ==
    /\ session.pc # "idle"
    /\ \E s \in session.running :
          session' = [session EXCEPT !.running = @ \ {s}]
    /\ SessionUnchanged

\* const results = await downloader.download(...): the loop goes on to the
\* next link once the strategy has returned.
SessionStrategyAwaited ==
    /\ session.pc = "awaitStrategy"
    /\ session.running = {}
    /\ session' = [session EXCEPT !.pc = "links", !.j = @ + 1]
    /\ SessionUnchanged

\* The for loop over the posts: the next unit starts after the last link.
SessionNextUnit ==
    /\ session.pc = "links"
    /\ session.j > Len(session.links)
    /\ session' =
          IF session.unit < MaxUnits
          THEN [session EXCEPT !.pc = "images", !.unit = @ + 1, !.j = 1]
          ELSE [session EXCEPT !.pc = "done"]
    /\ SessionUnchanged

SessionNext ==
    \/ SessionStartImages
    \/ SessionStartVideos
    \/ SessionBatchSettles
    \/ SessionBatchAwaited
    \/ SessionStartLink
    \/ SessionStrategySettles
    \/ SessionStrategyAwaited
    \/ SessionNextUnit

SpecSession == SessionInit /\ [][SessionNext]_vars

(***************************************************************************)
(* download(url, context) of the four built-in downloaders.  The           *)
(* environment of one call (what the network, the filesystem and the       *)
(* browser page answer) is fixed when the call is made; the call either    *)
(* returns a list of DownloadResults or throws.                            *)
(*                                                                         *)
(* A file name or a path is the sequence of the pieces its template        *)
(* string concatenates; an error message is a string.                      *)
(***************************************************************************)
MaxItems == 2          \* media or files a gallery page lists

\* Error.message of what fetch, the filesystem and Playwright throw.
NetworkErrors == {"fetch failed", "This operation was aborted"}
FsErrors == {"ENOENT: no such file or directory"}
PageErrors == {"page.goto: Timeout 60000ms exceeded."}

\* new Error(`HTTP ${response.status}: ${response.statusText}`).message
HttpStatuses == {200, 404, 503}
responseOk(status) == status >= 200 /\ status <= 299
httpMessage(status) ==
    CASE status = 404 -> "HTTP 404: Not Found"
      [] status = 503 -> "HTTP 503: Service Unavailable"
      [] OTHER -> "HTTP 200: OK"

\* The content-type header values a server declares; Null when the response
\* carries no content-type header.
HeaderTypes ==
    {"application/pdf", "Application/PDF; charset=binary", "image/jpeg",
     "text/html; charset=utf-8", "application/x-custom", "toString",
     "constructor"}

\* contentType.split(';')[0].trim().toLowerCase()
baseTypeOf(contentType) ==
    CASE contentType = "Application/PDF; charset=binary" -> "application/pdf"
      [] contentType = "text/html; charset=utf-8" -> "text/html"
      [] contentType = "toString" -> "tostring"
      [] OTHER -> contentType

\* The table of src/src/downloader.ts.
mimeToExt ==
    [t \in {"application/pdf", "image/jpeg", "image/jpg", "image/png",
            "image/gif", "image/webp", "video/mp4", "video/quicktime",
            "video/x-msvideo", "video/webm", "application/zip",
            "application/x-zip-compressed",
            "application/vnd.openxmlformats-officedocument.wordprocessingml.document",
            "application/vnd.openxmlformats-officedocument.spreadsheetml.sheet",
            "application/msword", "application/vnd.ms-excel"} |->
        CASE t = "application/pdf" -> "pdf"
          [] t \in {"image/jpeg", "image/jpg"} -> "jpg"
          [] t = "image/png" -> "png"
          [] t = "image/gif" -> "gif"
          [] t = "image/webp" -> "webp"
          [] t = "video/mp4" -> "mp4"
          [] t = "video/quicktime" -> "mov"
          [] t = "video/x-msvideo" -> "avi"
          [] t = "video/webm" -> "webm"
          [] t \in {"application/zip", "application/x-zip-compressed"} -> "zip"
          [] t = "application/vnd.openxmlformats-officedocument.wordprocessingml.document" -> "docx"
          [] t = "application/vnd.openxmlformats-officedocument.spreadsheetml.sheet" -> "xlsx"
          [] t = "application/msword" -> "doc"
          [] t = "application/vnd.ms-excel" -> "xls"]

\* The extended table: the entries above and the ones added to them.
mimeToExtExtended ==
    [t \in DOMAIN mimeToExt \cup
           {"application/vnd.ms-word", "application/vnd.ms-powerpoint",
            "application/vnd.openxmlformats-officedocument.presentationml.presentation",
            "image/svg+xml", "image/bmp", "image/tiff", "video/mpeg",
            "video/x-matroska", "application/x-rar-compressed",
            "application/x-7z-compressed", "application/gzip", "text/html",
            "application/xhtml+xml", "text/plain", "text/csv",
            "application/json", "application/xml", "text/xml",
            "application/octet-stream"} |->
        CASE t \in DOMAIN mimeToExt -> mimeToExt[t]
          [] t = "application/vnd.ms-word" -> "doc"
          [] t = "application/vnd.ms-powerpoint" -> "ppt"
          [] t = "application/vnd.openxmlformats-officedocument.presentationml.presentation" -> "pptx"
          [] t = "image/svg+xml" -> "svg"
          [] t = "image/bmp" -> "bmp"
          [] t = "image/tiff" -> "tiff"
          [] t = "video/mpeg" -> "mpeg"
          [] t = "video/x-matroska" -> "mkv"
          [] t = "application/x-rar-compressed" -> "rar"
          [] t = "application/x-7z-compressed" -> "7z"
          [] t = "application/gzip" -> "gz"
          [] t \in {"text/html", "application/xhtml+xml"} -> "html"
          [] t = "text/plain" -> "txt"
          [] t = "text/csv" -> "csv"
          [] t = "application/json" -> "json"
          [] t \in {"application/xml", "text/xml"} -> "xml"
          [] t = "application/octet-stream" -> "bin"]

MimeTables == {mimeToExt, mimeToExtExtended}

\* What a property read finds on Object.prototype when the object literal
\* has no own property of that name, as a template string prints it.
ObjectPrototype ==
    [k \in {"constructor", "__proto__"} |->
        CASE k = "constructor" -> "function Object() { [native code] }"
          [] k = "__proto__" -> "[object Object]"]

\* table[key] of a JavaScript object literal.
getProperty(table, key) ==
    IF key \in DOMAIN table THEN table[key]
    ELSE IF key \in DOMAIN ObjectPrototype THEN ObjectPrototype[key]
    ELSE Undefined

truthy(v) == v # Undefined /\ v # ""

\* return mimeToExt[baseType] || 'bin'
getExtensionFromContentType(table, contentType) ==
    LET baseType == baseTypeOf(contentType)
        entry == getProperty(table, baseType)
    IN  IF truthy(entry) THEN entry ELSE "bin"

\* A string built by a template is empty when every piece of it is.
isEmptyString(pieces) == \A k \in DOMAIN pieces : pieces[k] = ""

PostTimestamp == "11-08-10-00"

LinkNames == {"", "Menu semanal", "???"}

\* sanitizeFilename: the invalid characters are removed.
sanitizeFilename(name) == IF name = "???" THEN "" ELSE name

\* DirectFileDownloader.generateFilename
generateFilename(linkName, index, extension) ==
    IF linkName # ""
    THEN <<PostTimestamp, "-", sanitizeFilename(linkName), ".", extension>>
    ELSE <<PostTimestamp, "-external-", ToString(index + 1), ".", extension>>

ImageExts == {"jpg", "jpeg", "png", "gif", "webp", "bmp", "svg", "ico", "heic"}
VideoExts == {"mp4", "mov", "avi", "mkv", "webm", "flv", "wmv", "m4v", "3gp"}

\* detectFileType looks at what follows the last dot of the file name.
detectFileType(filename) ==
    LET ext == filename[Len(filename)]
    IN  IF ext \in ImageExts THEN "Images"
        ELSE IF ext \in VideoExts THEN "Videos"
        ELSE "External_Files"

\* join(baseDir, year, 'Mis Grupos', post.groupName, month, mediaType, filename)
getMediaFilePath(baseDir, filename) ==
    <<baseDir, "/2025/Mis Grupos/", GroupName, "/noviembre/",
      detectFileType(filename), "/">> \o filename

failedResult(url, error) == [status |-> "failed", url |-> url, error |-> error]

successResult(url, localPath, filename) ==
    [status |-> "success", url |-> url, localPath |-> localPath,
     filename |-> filename]

\* How a call of download() ends.
Returned(results) == [thrown |-> FALSE, results |-> results]
Thrown(error) == [thrown |-> TRUE, error |-> error]

\* What fetch(url) answers: a rejection or a response.
FetchOutcomes ==
    [kind : {"error"}, message : NetworkErrors]
    \cup [kind : {"response"}, status : HttpStatuses, hasType : {TRUE},
          type : HeaderTypes]
    \cup [kind : {"response"}, status : {200}, hasType : {FALSE}, type : {""}]

IoOutcomes == {"ok"} \cup FsErrors

\* downloadExternalLink(url, filePath, {timeout}): one fetch, and every error
\* becomes a failed result.
downloadExternalLink(url, env) ==
    LET contentType == IF env.fetch.hasType THEN env.fetch.type ELSE ""
    IN  IF env.fetch.kind = "error"
        THEN [status |-> "failed", error |-> env.fetch.message, url |-> url,
              fetches |-> 1]
        ELSE IF ~responseOk(env.fetch.status)
        THEN [status |-> "failed", error |-> httpMessage(env.fetch.status),
              url |-> url, fetches |-> 1]
        ELSE IF env.pipeline # "ok"
        THEN [status |-> "failed", error |-> env.pipeline, url |-> url,
              fetches |-> 1]
        ELSE [status |-> "success", contentType |-> contentType,
              extension |-> getExtensionFromContentType(env.table, contentType),
              fetches |-> 1]

\* What isUnwantedHtmlPage reads in the file: whether readFile succeeds,
\* content.length, whether the lower-cased content includes one of the
\* errorIndicators or of the webAppIndicators, and the numbers of matches
\* of <p>, <article> and <nav>.
HtmlThreshold == 50000

HtmlContents ==
    [readable : {TRUE}, length : {HtmlThreshold - 1, HtmlThreshold},
     errorIndicator : BOOLEAN, webAppIndicator : BOOLEAN,
     p : {2, 3}, article : {0, 1}, nav : {0, 1}]

Unreadable ==
    [readable |-> FALSE, length |-> 0, errorIndicator |-> FALSE,
     webAppIndicator |-> FALSE, p |-> 0, article |-> 0, nav |-> 0]

\* The body of a response that is no HTML page.
NoHtml ==
    [readable |-> TRUE, length |-> HtmlThreshold, errorIndicator |-> FALSE,
     webAppIndicator |-> FALSE, p |-> 3, article |-> 0, nav |-> 0]

HtmlTypes == {"text/html"}

isHtmlResponse(fetch) ==
    /\ fetch.kind = "response"
    /\ fetch.hasType
    /\ baseTypeOf(fetch.type) \in HtmlTypes

\* DirectFileDownloader.isUnwantedHtmlPage
isUnwantedHtmlPage(content) ==
    IF ~content.readable THEN FALSE
    ELSE IF content.length < HtmlThreshold
    THEN IF content.errorIndicator THEN TRUE
         ELSE IF content.webAppIndicator THEN TRUE
         ELSE LET hasMinimalContent ==
                      /\ content.p < 3
                      /\ content.article = 0
                      /\ content.nav > 0
              IN  hasMinimalContent
    ELSE FALSE

\* What pipeline(response.body, fileStream) runs into: the file cannot be
\* opened, or the body breaks off after the file was opened.
PipelineOutcomes == IoOutcomes \cup {"terminated"}

DirectEnvs ==
    { env \in [table : MimeTables, linkName : LinkNames, fileIndex : {0},
               fetch : FetchOutcomes, pipeline : PipelineOutcomes,
               rename : IoOutcomes,
               content : HtmlContents \cup {Unreadable, NoHtml}] :
        IF isHtmlResponse(env.fetch) /\ responseOk(env.fetch.status)
        THEN env.content # NoHtml
        ELSE env.content = NoHtml }

UnwantedHtmlMessage ==
    "Downloaded HTML appears to be a web page/error page, not a file attachment"

\* A download() whose rename is not covered by the try block.
directDownloadRenameUncaught(url, env) ==
    LET tempFilename == generateFilename(env.linkName, env.fileIndex, "tmp")
        result == downloadExternalLink(url, env)
    IN  IF result.status = "failed"
        THEN Returned(<<failedResult(url, result.error)>>)
        ELSE LET finalFilename ==
                    generateFilename(env.linkName, env.fileIndex, result.extension)
                 finalFilePath == getMediaFilePath("out", finalFilename)
             IN  IF finalFilename # tempFilename /\ env.rename # "ok"
                 THEN Thrown(env.rename)
                 ELSE IF result.extension = "html" /\ isUnwantedHtmlPage(env.content)
                 THEN Returned(<<failedResult(url, UnwantedHtmlMessage)>>)
                 ELSE Returned(<<successResult(url, finalFilePath, finalFilename)>>)

\* DirectFileDownloader.download
directDownload(url, env) ==
    LET tempFilename == generateFilename(env.linkName, env.fileIndex, "tmp")
        result == downloadExternalLink(url, env)
    IN  IF result.status = "failed"
        THEN Returned(<<failedResult(url, result.error)>>)
        ELSE LET finalFilename ==
                    generateFilename(env.linkName, env.fileIndex, result.extension)
                 finalFilePath == getMediaFilePath("out", finalFilename)
             IN  IF finalFilename # tempFilename /\ env.rename # "ok"
                 THEN Returned(<<failedResult(url, env.rename)>>)
                 ELSE IF result.extension = "html" /\ isUnwantedHtmlPage(env.content)
                 THEN Returned(<<failedResult(url, UnwantedHtmlMessage)>>)
                 ELSE Returned(<<successResult(url, finalFilePath, finalFilename)>>)

\* The files the call of DirectFileDownloader.download leaves in the
\* output directory: createWriteStream makes the temporary file when it can
\* open it, fs.rename turns it into the final file, and fs.unlink removes
\* the final file of an unwanted page.
directFiles(url, env) ==
    LET tempFilename == generateFilename(env.linkName, env.fileIndex, "tmp")
        tempFilePath == getMediaFilePath("out", tempFilename)
        result == downloadExternalLink(url, env)
    IN  IF env.fetch.kind = "error" \/ ~responseOk(env.fetch.status)
        THEN {}
        ELSE IF env.pipeline \in FsErrors
        THEN {}
        ELSE IF result.status = "failed"
        THEN {tempFilePath}
        ELSE LET finalFilename ==
                    generateFilename(env.linkName, env.fileIndex, result.extension)
                 finalFilePath == getMediaFilePath("out", finalFilename)
             IN  IF finalFilename # tempFilename /\ env.rename # "ok"
                 THEN {tempFilePath}
                 ELSE IF result.extension = "html" /\ isUnwantedHtmlPage(env.content)
                 THEN {}
                 ELSE {finalFilePath}

PageOutcomes == {"ok"} \cup PageErrors

\* What downloadMedia(media.url, filePath, {maxRetries: 3}) ends with for one
\* item of an album: "ok", or the message of the last attempt's error.
MediaOutcomes == {"ok", "fetch failed", "HTTP 404: Not Found"}

PhotosEnvs ==
    [hasPage : BOOLEAN, goto : PageOutcomes, debugWrite : IoOutcomes,
     items : UNION {[1..n -> [type : {"image", "video"}, download : MediaOutcomes]]
                    : n \in 0..MaxItems}]

\* GooglePhotosDownloader.generateFilename
albumFilename(index, mediaType) ==
    <<PostTimestamp, "-album-", mediaType, "-", ToString(index + 1),
      IF mediaType = "video" THEN ".mp4" ELSE ".jpg">>

\* The result pushed for item k, reading the error under a name the result of
\* downloadMedia does not have.
photosItemResultWrongField(url, env, k) ==
    LET item == env.items[k]
        filename == albumFilename(k - 1, item.type)
    IN  IF item.download = "ok"
        THEN successResult(url, <<"out/Images", "/">> \o filename, filename)
        ELSE failedResult(url, Undefined)

\* The result pushed for item k of the album (lines 133-146).
photosItemResult(url, env, k) ==
    LET item == env.items[k]
        filename == albumFilename(k - 1, item.type)
    IN  IF item.download = "ok"
        THEN successResult(url, <<"out/Images", "/">> \o filename, filename)
        ELSE failedResult(url, item.download)

\* GooglePhotosDownloader.download
photosDownload(url, env) ==
    IF ~env.hasPage
    THEN Returned(<<failedResult(url, "No Playwright page provided")>>)
    ELSE IF env.goto # "ok"
    THEN Returned(<<failedResult(url, env.goto)>>)
    ELSE IF Len(env.items) = 0
    THEN IF env.debugWrite # "ok"
         THEN Returned(<<failedResult(url, env.debugWrite)>>)
         ELSE Returned(<<failedResult(url, "No media found in album after scrolling.")>>)
    ELSE Returned([k \in 1..Len(env.items) |-> photosItemResult(url, env, k)])

\* What the download of one file of a folder runs into.
FolderFileOutcomes == {"ok", "noid", "http", "fetch", "write"}

FolderEnvs ==
    [hasPage : BOOLEAN, goto : PageOutcomes,
     files : UNION {[1..n -> FolderFileOutcomes] : n \in 0..MaxItems}]

folderFileError(outcome) ==
    CASE outcome = "noid" -> "Could not extract file ID from URL"
      [] outcome = "http" -> httpMessage(404)
      [] outcome = "fetch" -> "fetch failed"
      [] outcome = "write" -> "ENOENT: no such file or directory"

folderFilename(index) ==
    <<PostTimestamp, "-drive-", ToString(index + 1), "-", "menu.pdf">>

folderFileResult(url, env, k) ==
    LET filename == folderFilename(k - 1)
    IN  IF env.files[k] = "ok"
        THEN successResult(url, getMediaFilePath("out", filename), filename)
        ELSE failedResult(url, folderFileError(env.files[k]))

\* GoogleDriveFolderDownloader.download
folderDownload(url, env) ==
    IF ~env.hasPage
    THEN Returned(<<failedResult(url,
             "No Playwright page provided to GoogleDriveFolderDownloader")>>)
    ELSE IF env.goto # "ok"
    THEN Returned(<<failedResult(url, env.goto)>>)
    ELSE IF Len(env.files) = 0
    THEN Returned(<<failedResult(url,
             "No files found in folder. May require authentication.")>>)
    ELSE Returned([k \in 1..Len(env.files) |-> folderFileResult(url, env, k)])

\* What page.request.get and the write of its body run into: "ok", an HTTP
\* status that is not ok, or the message of the error thrown.
FileGetOutcomes ==
    {"ok", httpMessage(404), "fetch failed", "ENOENT: no such file or directory"}

FileEnvs ==
    [hasPage : BOOLEAN, goto : PageOutcomes, get : FileGetOutcomes,
     press : PageOutcomes, popup : {"timeout", "noform", "saved", "fails"}]

\* url.match(/\/d\/([^\/\?]+)/)
fileIdOf(url) == IF url = UDriveFile THEN "ID" ELSE ""

driveFilename(fileId) == <<PostTimestamp, "-drive-file-", fileId, ".", "pdf">>

BothFailedMessage ==
    "Failed to download file using both direct download and browser automation"

\* GoogleDriveFileDownloader.download
fileDownload(url, env) ==
    LET fileId == fileIdOf(url)
        filename == driveFilename(fileId)
        filePath == getMediaFilePath("out", filename)
    IN  IF ~env.hasPage
        THEN Returned(<<failedResult(url,
                 "No Playwright page provided to GoogleDriveFileDownloader")>>)
        ELSE IF fileId = ""
        THEN Returned(<<failedResult(url, "Could not extract file ID from URL")>>)
        ELSE IF env.goto # "ok"
        THEN Returned(<<failedResult(url, env.goto)>>)
        ELSE IF env.get = "ok"
        THEN Returned(<<successResult(url, filePath, filename)>>)
        ELSE IF env.press # "ok"
        THEN Returned(<<failedResult(url, env.press)>>)
        ELSE IF env.popup = "saved"
        THEN Returned(<<successResult(url, filePath, filename)>>)
        ELSE Returned(<<failedResult(url,
                 IF truthy(env.get) THEN env.get ELSE BothFailedMessage)>>)

StrategyInit ==
    /\ BaseIdle
    /\ batch = NotRunning
    /\ session = NotRunning
    /\ media = NotRunning
    /\ avatarRun = NotRunning
    /\ scroll = NotRunning
    /\ tree = NotRunning
    /\ fileRun = NotRunning
    /\ \/ \E env \in DirectEnvs :
             strategy = [pc |-> "called", name |-> DirectFileDownloader.name,
                         url |-> UImg, env |-> env]
       \/ \E env \in PhotosEnvs :
             strategy = [pc |-> "called", name |-> GooglePhotosDownloader.name,
                         url |-> UPhotos, env |-> env]
       \/ \E env \in FolderEnvs, url \in {UFolders, UDriveU} :
             strategy = [pc |-> "called",
                         name |-> GoogleDriveFolderDownloader.name,
                         url |-> url, env |-> env]
       \/ \E env \in FileEnvs :
             strategy = [pc |-> "called",
                         name |-> GoogleDriveFileDownloader.name,
                         url |-> UDriveFile, env |-> env]

StrategyUnchanged == UNCHANGED <<baseVars, batch, session, media, avatarRun,
        scroll,
        tree,
        fileRun>>

\* The call ends: the promise of download() fulfils with the results or
\* rejects.
settle(s, outcome, fetches) ==
    [pc |-> IF outcome.thrown THEN "thrown" ELSE "returned",
     name |-> s.name, url |-> s.url, env |-> s.env, outcome |-> outcome,
     fetches |-> fetches]

DirectDownload ==
    /\ strategy.pc = "called"
    /\ strategy.name = DirectFileDownloader.name
    /\ strategy' = settle(strategy, directDownload(strategy.url, strategy.env),
                          downloadExternalLink(strategy.url, strategy.env).fetches)
                   @@ [files |-> directFiles(strategy.url, strategy.env)]
    /\ StrategyUnchanged

PhotosDownload ==
    /\ strategy.pc = "called"
    /\ strategy.name = GooglePhotosDownloader.name
    /\ strategy' = settle(strategy, photosDownload(strategy.url, strategy.env), 0)
    /\ StrategyUnchanged

FolderDownload ==
    /\ strategy.pc = "called"
    /\ strategy.name = GoogleDriveFolderDownloader.name
    /\ strategy' = settle(strategy, folderDownload(strategy.url, strategy.env), 0)
    /\ StrategyUnchanged

FileDownload ==
    /\ strategy.pc = "called"
    /\ strategy.name = GoogleDriveFileDownloader.name
    /\ strategy' = settle(strategy, fileDownload(strategy.url, strategy.env), 0)
    /\ StrategyUnchanged

StrategyNext ==
    \/ DirectDownload
    \/ PhotosDownload
    \/ FolderDownload
    \/ FileDownload

SpecStrategy == StrategyInit /\ [][StrategyNext]_vars

(***************************************************************************)
(* downloadMedia(url, filePath, {maxRetries, timeout}): up to maxRetries   *)
(* attempts; after a failed attempt that is not the last one the function  *)
(* waits before the next.  waits lists the delays, in milliseconds, given  *)
(* to setTimeout so far.                                                   *)
(***************************************************************************)
MaxMediaRetries == 4   \* largest maxRetries option passed to downloadMedia

\* Error.message of what an attempt throws.
AttemptErrors == NetworkErrors \cup {httpMessage(404), httpMessage(503)}

NoError == Undefined

MediaInit ==
    /\ BaseIdle
    /\ batch = NotRunning
    /\ session = NotRunning
    /\ strategy = NotRunning
    /\ avatarRun = NotRunning
    /\ scroll = NotRunning
    /\ tree = NotRunning
    /\ fileRun = NotRunning
    /\ \E url \in MediaUrls, maxRetries \in 0..MaxMediaRetries :
          media = [pc |-> "attempt", url |-> url, maxRetries |-> maxRetries,
                   attempt |-> 1, lastError |-> NoError, waits |-> <<>>,
                   result |-> [status |-> "pending"]]

MediaUnchanged == UNCHANGED <<baseVars, batch, session, strategy, avatarRun,
        scroll,
        tree,
        fileRun>>

\* setTimeout(resolve, 1000 * attempt)
backoff(attempt) == 1000 * attempt

\* The timer of setTimeout(() => controller.abort(), timeout) runs from
\* the start of fetch until clearTimeout(timeoutId), which follows the
\* await of fetch: at "attempt" the response is awaited, at "streaming" the
\* body is piped to the file.
timerArmed(at) == at = "attempt"

\* fetch resolves with a response that is ok; the timer is cleared.
MediaResponseArrives ==
    /\ media.pc = "attempt"
    /\ media.attempt <= media.maxRetries
    /\ media' = [media EXCEPT !.pc = "streaming"]
    /\ MediaUnchanged

\* pipeline and fs.stat resolve: the try block runs to its return.
MediaAttemptSucceeds ==
    /\ media.pc = "streaming"
    /\ media' = [media EXCEPT !.pc = "done",
                              !.result = [status |-> "success"]]
    /\ MediaUnchanged

\* The catch block: lastError is set; the wait starts unless this was the
\* last attempt.
caught(message) ==
    IF media.attempt < media.maxRetries
    THEN [media EXCEPT !.pc = "waiting", !.lastError = message,
                       !.waits = Append(@, backoff(media.attempt))]
    ELSE [media EXCEPT !.pc = "attempt", !.lastError = message,
                       !.attempt = @ + 1]

\* fetch rejects or the response is not ok, while the response is awaited;
\* pipeline rejects, while the body is streamed.
MediaAttemptFails(message) ==
    /\ \/ media.pc = "attempt" /\ media.attempt <= media.maxRetries
       \/ media.pc = "streaming"
    /\ media' = caught(message)
    /\ MediaUnchanged

\* The timer fires: controller.abort() makes the pending operation reject.
MediaTimeout ==
    /\ media.pc \in {"attempt", "streaming"}
    /\ media.attempt <= media.maxRetries
    /\ timerArmed(media.pc)
    /\ media' = caught("This operation was aborted")
    /\ MediaUnchanged

\* The timer fires and the loop goes to the next attempt.
MediaWaitElapses ==
    /\ media.pc = "waiting"
    /\ media' = [media EXCEPT !.pc = "attempt", !.attempt = @ + 1]
    /\ MediaUnchanged

\* After the loop: the failed result, built from lastError.message; with no
\* attempt made lastError is undefined and reading its message throws.
MediaReturnsFailed ==
    /\ media.pc = "attempt"
    /\ media.attempt > media.maxRetries
    /\ media' =
          IF media.lastError = NoError
          THEN [media EXCEPT !.pc = "thrown"]
          ELSE [media EXCEPT !.pc = "done",
                   !.result = [status |-> "failed", error |-> media.lastError,
                               url |-> media.url]]
    /\ MediaUnchanged

MediaNext ==
    \/ MediaResponseArrives
    \/ MediaAttemptSucceeds
    \/ \E message \in AttemptErrors \ {"This operation was aborted"} :
          MediaAttemptFails(message)
    \/ MediaTimeout
    \/ MediaWaitElapses
    \/ MediaReturnsFailed

SpecMedia == MediaInit /\ [][MediaNext]_vars

(***************************************************************************)
(* The avatars of one collection over consecutive runs of main(): the      *)
(* manifest is loaded, Phase 2.5 downloads the avatars of the post         *)
(* authors, the posts are processed (each processed post is followed by    *)
(* saveManifest), and Phase 4.5 downloads the avatars of the comment       *)
(* authors collected from the posts processed in this run.  downloads and  *)
(* recorded log the avatar downloads and the records written complete.     *)
(***************************************************************************)
MaxAvatarRuns == 2     \* runs of main() over the same collection

AvatarAuthors == {"Ana", "Luis"}

\* post.author of the timeline posts.
PostAuthor(id) == "Ana"

\* manifest.avatars && manifest.avatars[author]?.status === 'complete'
hasAvatar(m, author) ==
    author \in DOMAIN m.avatars /\ m.avatars[author].status = "complete"

\* The loop over the batch results that calls updateAvatar for each author.
RECURSIVE updateAvatars(_, _, _, _)
updateAvatars(m, authors, results, now) ==
    IF authors = {} THEN m
    ELSE LET a == CHOOSE x \in authors : TRUE
         IN  updateAvatars(updateAvatar(m, a, avatarDataOf(results[a]), now),
                           authors \ {a}, results, now)

\* What the two updatePost calls of main() are given; the unit of a post
\* processed here has no media and no links.
avatarPostData(id, status) ==
    IF status = "complete" THEN completeData(id, EmptyUnit) ELSE failedData(id)

AvatarInit ==
    /\ BaseIdle
    /\ batch = NotRunning
    /\ session = NotRunning
    /\ strategy = NotRunning
    /\ media = NotRunning
    /\ scroll = NotRunning
    /\ tree = NotRunning
    /\ fileRun = NotRunning
    /\ \E comments \in [PostIds -> SUBSET AvatarAuthors] :
          avatarRun = [pc |-> "load", run |-> 1, now |-> 1, i |-> 1,
                       comments |-> comments, manifest |-> NoManifest,
                       disk |-> NoFile, commentAuthors |-> {},
                       failedAtLoad |-> {}, downloads |-> {},
                       recorded |-> {}]

AvatarUnchanged == UNCHANGED <<baseVars, batch, session, strategy, media,
        scroll,
        tree,
        fileRun>>

\* const manifest = await loadManifest(group.name); failedAtLoad logs the
\* names whose loaded record is failed.
AvatarLoadManifest ==
    /\ avatarRun.pc = "load"
    /\ LET loaded == loadManifest(avatarRun.disk, avatarRun.now)
       IN  avatarRun' = [avatarRun EXCEPT
              !.pc = "phase25", !.now = @ + 1, !.i = 1, !.commentAuthors = {},
              !.manifest = loaded,
              !.failedAtLoad = {a \in DOMAIN loaded.avatars :
                                  loaded.avatars[a].status = "failed"}]
    /\ AvatarUnchanged

\* The authors whose avatar a phase downloads: those without a complete record.
toDownload(m, authors) == {a \in authors : ~hasAvatar(m, a)}

\* A phase downloads the avatars of authors and records each result in the
\* manifest object.
downloadPhase(r, phase, authors, results) ==
    LET todo == toDownload(r.manifest, authors)
    IN  [r EXCEPT
          !.now = @ + 1,
          !.manifest = updateAvatars(@, todo, results, r.now),
          !.downloads = @ \cup {[run |-> r.run, phase |-> phase, author |-> a]
                                  : a \in todo},
          !.recorded = @ \cup {[run |-> r.run, phase |-> phase, author |-> a]
                                 : a \in {x \in todo : results[x].success}}]

\* Phase 2.5: the avatars of the post authors of the timeline.
AvatarPhase25 ==
    /\ avatarRun.pc = "phase25"
    /\ \E results \in [AvatarAuthors -> AvatarResults] :
          avatarRun' =
             [downloadPhase(avatarRun, 25, {PostAuthor(id) : id \in PostIds}, results)
                EXCEPT !.pc = "posts"]
    /\ AvatarUnchanged

\* One pass of the loop over the posts: a complete post is skipped; another
\* one is enriched, its comment authors are collected unless enrichSinglePost
\* threw, and the manifest is updated and saved.
AvatarProcessPost ==
    /\ avatarRun.pc = "posts"
    /\ avatarRun.i <= Len(Posts)
    /\ LET id == Posts[avatarRun.i]
       IN  IF isPostComplete(avatarRun.manifest, id)
           THEN avatarRun' = [avatarRun EXCEPT !.i = @ + 1]
           ELSE \E outcome \in {"complete", "failed", "enrichFailed"} :
                   LET status == IF outcome = "complete" THEN "complete"
                                 ELSE "failed"
                       updated == updatePost(avatarRun.manifest, id,
                                             avatarPostData(id, status),
                                             avatarRun.now)
                       saved == touchLastRun(updated, avatarRun.now)
                   IN  avatarRun' = [avatarRun EXCEPT
                          !.i = @ + 1, !.now = @ + 1,
                          !.commentAuthors =
                             IF outcome = "enrichFailed" THEN @
                             ELSE @ \cup avatarRun.comments[id],
                          !.manifest = saved,
                          !.disk = [exists |-> TRUE, data |-> stringify(saved)]]
    /\ AvatarUnchanged

\* Phase 4.5: the avatars of the comment authors collected in this run; the
\* manifest is not saved afterwards.
AvatarPhase45 ==
    /\ avatarRun.pc = "posts"
    /\ avatarRun.i > Len(Posts)
    /\ \E results \in [AvatarAuthors -> AvatarResults] :
          avatarRun' =
             [downloadPhase(avatarRun, 45, avatarRun.commentAuthors, results)
                EXCEPT !.pc = "end"]
    /\ AvatarUnchanged

\* main() returns; the next run starts from what is on disk.
AvatarNextRun ==
    /\ avatarRun.pc = "end"
    /\ avatarRun' =
          IF avatarRun.run < MaxAvatarRuns
          THEN [avatarRun EXCEPT !.pc = "load", !.run = @ + 1,
                                 !.manifest = NoManifest]
          ELSE [avatarRun EXCEPT !.pc = "done"]
    /\ AvatarUnchanged

AvatarNext ==
    \/ AvatarLoadManifest
    \/ AvatarPhase25
    \/ AvatarProcessPost
    \/ AvatarPhase45
    \/ AvatarNextRun

SpecAvatars == AvatarInit /\ [][AvatarNext]_vars

(***************************************************************************)
(* The progressive-scroll loops of the enumeration strategies.  The loop   *)
(* of GooglePhotosDownloader.download and the scrollToLoadAll of the       *)
(* recursive folder class in GoogleDriveFileDownloader.ts count the        *)
(* iterations that found no new identifier; the scrollToLoadAll of the     *)
(* registered GoogleDriveFolderDownloader compares scroll heights.  The    *)
(* feed holds the items 1..total and shows them in that order; a view is   *)
(* a window lo..hi of the items, which may show again items of earlier     *)
(* views.  shown, entries and emptyRun are logs: the items the feed has    *)
(* shown so far, the insertions made into the collection, and the          *)
(* iterations since the feed last showed something new.                    *)
(***************************************************************************)
MaxFeed == 40          \* largest number of items a feed holds
MaxNewPerView == 2     \* most items a view shows for the first time

maxScrollAttempts == 1000
requiredConsecutiveNoNew == 25
heightMaxScrollAttempts == 20

FeedSizes == {2, MaxFeed}

ScrollInit ==
    /\ BaseIdle
    /\ batch = NotRunning
    /\ session = NotRunning
    /\ strategy = NotRunning
    /\ media = NotRunning
    /\ avatarRun = NotRunning
    /\ tree = NotRunning
    /\ fileRun = NotRunning
    /\ \E variant \in {"counting", "height"}, total \in FeedSizes :
          /\ variant = "height" => total = 2
          /\ scroll = [pc |-> "loop", variant |-> variant, total |-> total,
                       scrollAttempts |-> 0, noNewCount |-> 0, all |-> {},
                       previousHeight |-> 0, shown |-> 0, entries |-> 0,
                       emptyRun |-> 0, exit |-> "none"]

ScrollUnchanged == UNCHANGED <<baseVars, batch, session, strategy, media,
        avatarRun,
        tree,
        fileRun>>

\* What a view can be when the feed has shown the items 1..shown: it
\* reaches up to hi, and starts at the first item, at the last item shown
\* before or at the first new item; lo = hi + 1 is the view with no item
\* in it.
Views(shown, total) ==
    { v \in [lo : {1, shown, shown + 1} \ {0}, hi : shown..total] :
        v.hi <= shown + MaxNewPerView }

inView(v) == v.lo .. v.hi

\* mediaInView.forEach(m => { if (!allMedia.has(m.url)) allMedia.set(...) })
\* and itemIdsInView.forEach(id => allItemIds.add(id)): the collection and
\* the number of insertions made.  The variant that pushes every identifier
\* of the view makes an insertion for each.
collectPushing(all, view) ==
    [all |-> all \cup view, inserted |-> Cardinality(view)]

collect(all, view) ==
    [all |-> all \cup view, inserted |-> Cardinality(view \ all)]

\* if (newCount > 0) noNewMediaCount = 0; else noNewMediaCount++
nextNoNewCount(noNewCount, newCount) ==
    IF newCount > 0 THEN 0 ELSE noNewCount + 1

\* One pass of the body of the counting loop, the while condition that
\* follows it included.
ScrollIteration ==
    /\ scroll.pc = "loop"
    /\ scroll.variant = "counting"
    /\ scroll.scrollAttempts < maxScrollAttempts
    /\ \E v \in Views(scroll.shown, scroll.total) :
         LET sizeBefore == Cardinality(scroll.all)
             c == collect(scroll.all, inView(v))
             newCount == Cardinality(c.all) - sizeBefore
             noNew == nextNoNewCount(scroll.noNewCount, newCount)
             empty == IF v.hi > scroll.shown THEN 0 ELSE scroll.emptyRun + 1
             logged == [scroll EXCEPT !.all = c.all,
                                      !.entries = @ + c.inserted,
                                      !.shown = v.hi,
                                      !.emptyRun = empty,
                                      !.noNewCount = noNew]
         IN  scroll' =
               IF newCount = 0 /\ noNew >= requiredConsecutiveNoNew
               THEN [logged EXCEPT !.pc = "done", !.exit = "noNew"]
               ELSE IF scroll.scrollAttempts + 1 < maxScrollAttempts
               THEN [logged EXCEPT !.scrollAttempts = @ + 1]
               ELSE [logged EXCEPT !.scrollAttempts = @ + 1,
                                   !.pc = "done", !.exit = "ceiling"]
    /\ ScrollUnchanged

\* page.evaluate or page.mouse.wheel rejects: the loop is left by the
\* exception, which the caller's try block catches; the locals are gone.
ScrollPageFails ==
    /\ scroll.pc = "loop"
    /\ scroll' = [pc |-> "thrown", variant |-> scroll.variant]
    /\ ScrollUnchanged

\* One pass of the body of the height-based loop: the page is scrolled to
\* the bottom, and the loop breaks when scrollHeight is what it was.  More
\* rows loaded means a larger scrollHeight.
HeightIteration(grown) ==
    /\ scroll.pc = "loop"
    /\ scroll.variant = "height"
    /\ scroll.scrollAttempts < heightMaxScrollAttempts
    /\ LET currentHeight == scroll.previousHeight + grown
           empty == IF grown > 0 THEN 0 ELSE scroll.emptyRun + 1
       IN  /\ currentHeight > 0
           /\ scroll' =
                IF currentHeight = scroll.previousHeight
                THEN [scroll EXCEPT !.pc = "done", !.exit = "sameHeight",
                                    !.emptyRun = empty]
                ELSE IF scroll.scrollAttempts + 1 < heightMaxScrollAttempts
                THEN [scroll EXCEPT !.previousHeight = currentHeight,
                                    !.scrollAttempts = @ + 1,
                                    !.emptyRun = empty]
                ELSE [scroll EXCEPT !.previousHeight = currentHeight,
                                    !.scrollAttempts = @ + 1,
                                    !.emptyRun = empty,
                                    !.pc = "done", !.exit = "ceiling"]
    /\ ScrollUnchanged

ScrollNext ==
    \/ ScrollIteration
    \/ \E grown \in 0..1 : HeightIteration(grown)
    \/ ScrollPageFails

SpecScroll == ScrollInit /\ [][ScrollNext]_vars

(***************************************************************************)
(* The recursive folder enumeration of GoogleDriveFileDownloader.ts:       *)
(* download calls downloadFolderRecursively(url, '', context, 0), which    *)
(* opens the folder, fetches its files one by one and then calls itself on *)
(* every subfolder.  stack holds the calls in progress, outermost first.   *)
(* discovered, placed and failedContainers are logs: the URLs of the files *)
(* extractItems listed, where the files saved were put, and the folders    *)
(* whose call ended with an exception.                                     *)
(***************************************************************************)
MAX_DEPTH == 10

TreeFolders == {"root", "a", "b"}

FolderName(folder) ==
    CASE folder = "a" -> "Fotos"
      [] folder = "b" -> "Actas"
      [] OTHER -> "Inicio"

NoItems == [files |-> <<>>, folders |-> <<>>]

\* What extractItems finds in each folder: a flat folder, a folder with two
\* subfolders, and two folders that list each other.
Layouts ==
    [flat |-> [root |-> [files |-> <<"f1", "f2">>, folders |-> <<>>],
               a |-> NoItems, b |-> NoItems],
     nested |-> [root |-> [files |-> <<"f1">>, folders |-> <<"a", "b">>],
                 a |-> [files |-> <<"f2", "f3">>, folders |-> <<>>],
                 b |-> [files |-> <<"f4">>, folders |-> <<>>]],
     cycle |-> [root |-> [files |-> <<>>, folders |-> <<"a">>],
                a |-> [files |-> <<"f1">>, folders |-> <<"root">>],
                b |-> NoItems]]

\* What the download of one file runs into: it is saved, its URL holds no
\* file id, the response is not ok, or fs.mkdir of the folder's directory
\* rejects.
TreeFileOutcomes == {"ok", "noid", "http", "mkdir"}

NoFilesInFolderMessage ==
    "No files found in folder. May require authentication or folder is empty."

newCall(folder, folderPath, depth) ==
    [folder |-> folder, folderPath |-> folderPath, depth |-> depth,
     entered |-> FALSE, k |-> 1, m |-> 1, allResults |-> <<>>]

TreeInit ==
    /\ BaseIdle
    /\ batch = NotRunning
    /\ session = NotRunning
    /\ strategy = NotRunning
    /\ media = NotRunning
    /\ avatarRun = NotRunning
    /\ scroll = NotRunning
    /\ fileRun = NotRunning
    /\ \E layout \in DOMAIN Layouts :
          tree = [pc |-> "run", layout |-> layout,
                  stack |-> <<newCall("root", <<>>, 0)>>,
                  results |-> <<>>, discovered |-> <<>>, placed |-> {},
                  failedContainers |-> {}]

TreeUnchanged == UNCHANGED <<baseVars, batch, session, strategy, media,
        avatarRun, scroll,
        fileRun>>

top == tree.stack[Len(tree.stack)]

itemsOf(folder) == Layouts[tree.layout][folder]

\* if (depth > MAX_DEPTH) return []
depthExceededOffByOne(depth) == depth > MAX_DEPTH

\* if (depth >= MAX_DEPTH) return []
depthExceeded(depth) == depth >= MAX_DEPTH

\* const subFolderPath = folderPath ? `${folderPath}/${folder.name}` : folder.name
subFolderPathOf(folderPath, name) ==
    IF ~isEmptyString(folderPath) THEN folderPath \o <<"/", name>> ELSE <<name>>

\* `${timestamp}-drive-${sanitizedName}`
treeFilename(name) == <<PostTimestamp, "-drive-", name, ".", "pdf">>

\* path.join(getMediaFilePath(baseDir, post, '', 'Images'), folderPath,
\* filename) for a file of a subfolder, getMediaFilePath(baseDir, post,
\* filename) for a file of the root folder.
treeFilePath(baseDir, folderPath, filename) ==
    IF ~isEmptyString(folderPath)
    THEN <<baseDir, "/2025/Mis Grupos/", GroupName, "/noviembre/", "Images",
           "/">> \o folderPath \o <<"/">> \o filename
    ELSE getMediaFilePath(baseDir, filename)

\* A call returns subResults: download returns them, or the failed result
\* that stands for an empty list; an inner call hands them to the loop over
\* the subfolders of its caller.
returnTo(stack, subResults) ==
    IF Len(stack) = 1
    THEN [tree EXCEPT !.pc = "done", !.stack = <<>>,
            !.results = IF Len(subResults) = 0
                        THEN <<failedResult("root", NoFilesInFolderMessage)>>
                        ELSE subResults]
    ELSE LET caller == stack[Len(stack) - 1]
         IN  [tree EXCEPT !.stack =
                 SubSeq(stack, 1, Len(stack) - 2) \o
                 <<[caller EXCEPT !.allResults = @ \o subResults,
                                  !.m = @ + 1]>>]

\* A call ends with an exception: the catch of download turns it into one
\* failed result for the URL of the link; the catch in the loop over the
\* subfolders logs it and goes on with the next subfolder.
throwTo(stack, message) ==
    LET failed == stack[Len(stack)].folder
    IN  IF Len(stack) = 1
        THEN [tree EXCEPT !.pc = "done", !.stack = <<>>,
                !.results = <<failedResult("root", message)>>,
                !.failedContainers = @ \cup {failed}]
        ELSE LET caller == stack[Len(stack) - 1]
             IN  [tree EXCEPT !.stack =
                     SubSeq(stack, 1, Len(stack) - 2) \o
                     <<[caller EXCEPT !.m = @ + 1]>>,
                     !.failedContainers = @ \cup {failed}]

\* The start of downloadFolderRecursively: the depth check, page.goto,
\* scrollToLoadAll and extractItems.
TreeOpen(opened) ==
    /\ tree.pc = "run"
    /\ ~top.entered
    /\ tree' =
          IF depthExceeded(top.depth)
          THEN returnTo(tree.stack, <<>>)
          ELSE IF ~opened
          THEN throwTo(tree.stack, "page.goto: Timeout 60000ms exceeded.")
          ELSE [tree EXCEPT !.stack[Len(tree.stack)].entered = TRUE,
                            !.discovered = @ \o itemsOf(top.folder).files]
    /\ TreeUnchanged

\* One pass of the loop over items.files.
TreeFile(outcome) ==
    /\ tree.pc = "run"
    /\ top.entered
    /\ top.k <= Len(itemsOf(top.folder).files)
    /\ LET file == itemsOf(top.folder).files[top.k]
           filename == treeFilename(file)
           filePath == treeFilePath("out", top.folderPath, filename)
           pushed(result) ==
               [tree EXCEPT !.stack[Len(tree.stack)].allResults =
                                Append(@, result),
                            !.stack[Len(tree.stack)].k = @ + 1]
       IN  tree' =
             IF outcome = "noid"
             THEN pushed(failedResult(file, "Could not extract file ID from URL"))
             ELSE IF outcome = "mkdir" /\ ~isEmptyString(top.folderPath)
             THEN throwTo(tree.stack, "ENAMETOOLONG: name too long, mkdir")
             ELSE IF outcome = "http"
             THEN pushed(failedResult(file, httpMessage(404)))
             ELSE [pushed(successResult(file, filePath,
                      IF ~isEmptyString(top.folderPath)
                      THEN top.folderPath \o <<"/">> \o filename
                      ELSE filename))
                   EXCEPT !.placed = @ \cup
                      {[chain |-> [q \in 1..(Len(tree.stack) - 1) |->
                                      FolderName(tree.stack[q + 1].folder)],
                        name |-> file, localPath |-> filePath]}]
    /\ TreeUnchanged

\* One pass of the loop over items.folders, up to the recursive call.
TreeRecurse ==
    /\ tree.pc = "run"
    /\ top.entered
    /\ top.k > Len(itemsOf(top.folder).files)
    /\ top.m <= Len(itemsOf(top.folder).folders)
    /\ LET folder == itemsOf(top.folder).folders[top.m]
           subFolderPath == subFolderPathOf(top.folderPath, FolderName(folder))
       IN  tree' = [tree EXCEPT !.stack =
                       Append(@, newCall(folder, subFolderPath, top.depth + 1))]
    /\ TreeUnchanged

\* return allResults
TreeReturn ==
    /\ tree.pc = "run"
    /\ top.entered
    /\ top.k > Len(itemsOf(top.folder).files)
    /\ top.m > Len(itemsOf(top.folder).folders)
    /\ tree' = returnTo(tree.stack, top.allResults)
    /\ TreeUnchanged

TreeNext ==
    \/ \E opened \in BOOLEAN : TreeOpen(opened)
    \/ \E outcome \in TreeFileOutcomes : TreeFile(outcome)
    \/ TreeRecurse
    \/ TreeReturn

SpecTree == TreeInit /\ [][TreeNext]_vars

SpecTreeLive == TreeInit /\ [][TreeNext]_vars /\ WF_vars(TreeNext)

(***************************************************************************)
(* GoogleDriveFileDownloader.download, await by await: the page is opened, *)
(* the file is requested from the content endpoint, and when that fails    *)
(* the download is started from the page: Meta+d, the page that opens, its *)
(* confirmation form, the click, the download event, saveAs.  steps logs   *)
(* the operations started, in order; saved logs which path wrote the file. *)
(***************************************************************************)
FileGetErrors ==
    {httpMessage(404), httpMessage(503), "fetch failed",
     "ENOENT: no such file or directory"}

NativeErrors == {"Timeout 10000ms exceeded."}

SuggestedFilenames == {"", "acta-marzo"}

FileRunInit ==
    /\ BaseIdle
    /\ batch = NotRunning
    /\ session = NotRunning
    /\ strategy = NotRunning
    /\ media = NotRunning
    /\ avatarRun = NotRunning
    /\ scroll = NotRunning
    /\ tree = NotRunning
    /\ \E hasPage \in BOOLEAN, url \in {UDriveFile, UFolders},
          named \in BOOLEAN :
          fileRun = [pc |-> "called", hasPage |-> hasPage, url |-> url,
                     named |-> named, steps |-> <<>>, getError |-> NoError,
                     suggestedFilename |-> "", saved |-> "none",
                     results |-> <<>>]

FileRunUnchanged == UNCHANGED <<baseVars, batch, session, strategy, media,
        avatarRun, scroll, tree>>

\* `${timestamp}-${sanitizedName}.${extension}` when the page gave a name,
\* `${timestamp}-drive-file-${fileId}.${extension}` otherwise.
fileRunFilename(named, fileId) ==
    IF named THEN <<PostTimestamp, "-", "Acta", ".", "pdf">>
    ELSE driveFilename(fileId)

\* if (suggestedFilename && !actualFilename): the name of the download
\* replaces the name built from the file id.
nativeFilename(named, fileId, suggestedFilename) ==
    IF truthy(suggestedFilename) /\ ~named
    THEN <<PostTimestamp, "-", suggestedFilename, ".", "pdf">>
    ELSE fileRunFilename(named, fileId)

fileRunReturns(result) ==
    [fileRun EXCEPT !.pc = "done", !.results = <<result>>]

fileRunStep(name, at) ==
    [fileRun EXCEPT !.pc = at, !.steps = Append(@, name)]

\* The checks before the try block and the first await in it.
FileRunStart(gotoOutcome) ==
    /\ fileRun.pc = "called"
    /\ fileRun' =
          IF ~fileRun.hasPage
          THEN fileRunReturns(failedResult(fileRun.url,
                   "No Playwright page provided to GoogleDriveFileDownloader"))
          ELSE IF fileIdOf(fileRun.url) = ""
          THEN fileRunReturns(failedResult(fileRun.url,
                   "Could not extract file ID from URL"))
          ELSE IF gotoOutcome # "ok"
          THEN [fileRunReturns(failedResult(fileRun.url, gotoOutcome))
                EXCEPT !.steps = Append(@, "goto")]
          ELSE fileRunStep("goto", "get")
    /\ FileRunUnchanged

\* Where the call goes after a content-endpoint request that saved the
\* file, for the variant that starts the download from the page anyway.
afterSavedAlwaysNative(result) == fileRunStep("get", "press")

\* return [{status: 'success', ...}] inside the try block of the request.
afterSaved(result) ==
    [fileRunReturns(result) EXCEPT !.steps = Append(@, "get")]

\* page.request.get(directDownloadUrl), response.body(), fs.writeFile and
\* fs.stat succeed.
FileRunGetSaves ==
    /\ fileRun.pc = "get"
    /\ LET filename == fileRunFilename(fileRun.named, fileIdOf(fileRun.url))
           s == afterSaved(successResult(fileRun.url,
                    getMediaFilePath("out", filename), filename))
       IN  fileRun' = [s EXCEPT !.saved = "direct"]
    /\ FileRunUnchanged

\* The request rejects, answers with a status that is not ok, or the file
\* cannot be written: the catch block starts.
FileRunGetFails(message) ==
    /\ fileRun.pc = "get"
    /\ fileRun' = [fileRunStep("get", "press") EXCEPT !.getError = message]
    /\ FileRunUnchanged

\* return [{status: 'failed', url, error: error.message || '...'}] at the
\* end of the catch block.
fileRunBothFailed ==
    fileRunReturns(failedResult(fileRun.url,
        IF truthy(fileRun.getError) THEN fileRun.getError
        ELSE BothFailedMessage))

\* waitForEvent('page') is armed and Meta+d is pressed; a rejection of
\* keyboard.press is caught by the outer catch.
FileRunPress(outcome) ==
    /\ fileRun.pc = "press"
    /\ fileRun' =
          IF outcome # "ok"
          THEN [fileRunReturns(failedResult(fileRun.url, outcome))
                EXCEPT !.steps = Append(@, "press")]
          ELSE fileRunStep("press", "popup")
    /\ FileRunUnchanged

\* await popupPromise, waitForLoadState and the count of #download-form.
FileRunPopup(outcome) ==
    /\ fileRun.pc = "popup"
    /\ fileRun' =
          IF outcome = "form"
          THEN fileRunStep("popup", "confirm")
          ELSE [fileRunBothFailed EXCEPT !.steps = Append(@, "popup")]
    /\ FileRunUnchanged

\* waitForEvent('download') is armed, the button is clicked and the
\* download event awaited; the download suggests a name or none.
FileRunConfirm(outcome) ==
    /\ fileRun.pc = "confirm"
    /\ fileRun' =
          IF outcome \in SuggestedFilenames
          THEN [fileRunStep("confirm", "saveAs")
                EXCEPT !.suggestedFilename = outcome]
          ELSE [fileRunBothFailed EXCEPT !.steps = Append(@, "confirm")]
    /\ FileRunUnchanged

\* download.saveAs(finalPath), fs.stat and newPage.close().
FileRunSaveAs(outcome) ==
    /\ fileRun.pc = "saveAs"
    /\ LET filename == nativeFilename(fileRun.named, fileIdOf(fileRun.url),
                                      fileRun.suggestedFilename)
       IN  fileRun' =
             IF outcome = "ok"
             THEN [fileRunReturns(successResult(fileRun.url,
                       getMediaFilePath("out", filename), filename))
                   EXCEPT !.steps = Append(@, "saveAs"), !.saved = "native"]
             ELSE [fileRunBothFailed EXCEPT !.steps = Append(@, "saveAs")]
    /\ FileRunUnchanged

FileRunNext ==
    \/ \E outcome \in PageOutcomes : FileRunStart(outcome)
    \/ FileRunGetSaves
    \/ \E message \in FileGetErrors : FileRunGetFails(message)
    \/ \E outcome \in PageOutcomes : FileRunPress(outcome)
    \/ \E outcome \in {"form", "noform"} \cup NativeErrors : FileRunPopup(outcome)
    \/ \E outcome \in SuggestedFilenames \cup NativeErrors :
          FileRunConfirm(outcome)
    \/ \E outcome \in {"ok"} \cup FsErrors : FileRunSaveAs(outcome)

SpecFileRun == FileRunInit /\ [][FileRunNext]_vars

(***************************************************************************)
(* Properties.                                                             *)
(***************************************************************************)
IndexOf(id) == CHOOSE k \in 1..Len(Posts) : Posts[k] = id

\* The loop has left the unit behind (in this run).
Finished(id) == pc \notin {"idle"} /\ IndexOf(id) < i

DiskRecord(id) ==
    IF disk.exists /\ id \in DOMAIN parse(disk.data).posts
    THEN parse(disk.data).posts[id] ELSE NoRecord

MemoryRecord(m, id) == IF id \in DOMAIN m.posts THEN m.posts[id] ELSE NoRecord

\* The unit at hand went through its URLs and no exception escaped.
UnitAccounted ==
    \/ pc \in {"markdown", "update"}
    \/ pc \in {"save", "saving"} /\ ~unit.threw

AttemptsOn(url) == {k \in 1..Len(unit.attempts) : unit.attempts[k].url = url}

GalleryCount(url) ==
    Cardinality({k \in 1..Len(unit.galleryImages) :
                   unit.galleryImages[k].sourceUrl = url})

StrictlyIncreasing(s) == \A a, b \in 1..Len(s) : a < b => s[a] < s[b]

NoLeafFailure ==
    /\ unit.failedExternalLinks = <<>>
    /\ unit.failedDownloads = 0

\* C4: a unit is recorded complete exactly when none of its URLs failed or was
\* non-fetchable.
C4_StatusReflectsLeaves ==
    (pc \in {"save", "saving"} /\ ~unit.threw)
    => (manifest.posts[cur].status = "complete" <=> NoLeafFailure)

NoStrategyHandles(url) ==
    \A k \in 1..Len(downloaders) : ~canHandle(downloaders[k], url)

\* C5: a URL that no registered strategy can handle is never passed to a
\* download and is in the failed list exactly once.
C5_NonFetchable ==
    \A url \in unit.processedUrls :
        NoStrategyHandles(url)
        => /\ AttemptsOn(url) = {}
           /\ CountIn(unit.failedExternalLinks, url) = 1

\* The mailto link went through the loop, after a link that was downloaded.
C5_Witness ==
    /\ pc = "markdown"
    /\ UMail \in unit.processedUrls
    /\ unit.downloadedExternalFiles # <<>>

\* C6: a URL given to a gallery strategy (priority > 0) that ends in the failed
\* list was also given to the Direct-Fetch strategy.
C6_FallbackChain ==
    \A url \in Range(unit.failedExternalLinks) :
        (\E k \in AttemptsOn(url) : unit.attempts[k].by # "DirectFileDownloader")
        => (\E k \in AttemptsOn(url) : unit.attempts[k].by = "DirectFileDownloader")

\* C7: no URL of the unit, media or external link, is passed to a download
\* more than once.
C7_FetchedOnce ==
    \A url \in AllUrls : Cardinality(AttemptsOn(url)) <= 1

OthersUntouched ==
    \A o \in PostIds \ {cur} :
        MemoryRecord(manifest, o) =
            (IF finalRecord[o] # NoRecord THEN finalRecord[o]
             ELSE MemoryRecord(runStart, o))

C9_CompleteAccounting ==
    /\ \A url \in Range(unit.links) :
         CountIn(unit.downloadedExternalFiles, url) + GalleryCount(url)
            + CountIn(unit.failedExternalLinks, url)
         = IF url \in unit.processedUrls THEN 1 ELSE 0
    /\ \A k \in 1..Len(unit.galleryImages) : unit.galleryImages[k].images >= 1
    /\ UnitAccounted => Range(unit.links) \subseteq unit.processedUrls

\* Two links, one in a gallery and one failed, and the loop is over.
C9_Witness ==
    /\ pc = "markdown"
    /\ Len(unit.links) = 2
    /\ Len(unit.galleryImages) = 1
    /\ Len(unit.failedExternalLinks) = 1

Candidates(url) == {k \in 1..Len(downloaders) : canHandle(downloaders[k], url)}

\* C10: getDownloader returns null when no registered strategy can handle the
\* URL, the only candidate when there is one, otherwise a candidate of
\* maximal priority; calls on the same registry and URL return the same.
C10_RegistryResolution ==
    \A n \in 1..Len(resolved) :
        /\ Candidates(lastUrl) = {} => resolved[n] = NullDownloader
        /\ Candidates(lastUrl) # {}
           => \E k \in Candidates(lastUrl) :
                /\ resolved[n] = downloaders[k]
                /\ \A m \in Candidates(lastUrl) :
                     getPriority(downloaders[k]) >= getPriority(downloaders[m])
        /\ resolved[n] = resolved[1]

\* Two calls resolved a URL with three candidates to the one registered last,
\* which has the highest priority.
C10_Witness ==
    /\ Len(resolved) = 2
    /\ Cardinality(Candidates(lastUrl)) = 3
    /\ resolved[1] = downloaders[Len(downloaders)]
    /\ getPriority(resolved[1]) = 20

\* The candidates of maximal priority for a URL, as positions of registration.
TopCandidates(url) ==
    {k \in Candidates(url) :
        \A m \in Candidates(url) :
            getPriority(downloaders[k]) >= getPriority(downloaders[m])}

\* C11: when several candidates share the highest priority for the URL,
\* getDownloader returns the one registered first, and a call of getDownloader
\* leaves the registration order as it was.
C11_RegistryTieBreak ==
    /\ [](\A n \in 1..Len(resolved) :
            TopCandidates(lastUrl) # {}
            => resolved[n] = downloaders[CHOOSE k \in TopCandidates(lastUrl) :
                                 \A m \in TopCandidates(lastUrl) : k <= m])
    /\ [][Len(resolved') > Len(resolved) => downloaders' = downloaders]_vars

\* A call resolved a URL for which two different downloaders tie at the highest
\* priority, one of them registered after the constructor's four.
C11_Witness ==
    /\ Len(resolved) >= 1
    /\ \E a, b \in TopCandidates(lastUrl) :
          /\ a < b
          /\ b > Len(ConstructorDownloaders)
          /\ downloaders[a] # downloaders[b]
          /\ resolved[1] = downloaders[a]

\* C12: over any sequence of updatePost calls on a post id, first_downloaded
\* keeps the value the first call set, every call sets last_updated to the time
\* of the call, later than the one it replaces, and last_updated never
\* precedes first_downloaded.
C12_UpsertTimestamps ==
    /\ \A id \in DOMAIN manifest.posts :
          /\ manifest.posts[id].first_downloaded = storeLog.firstSet[id]
          /\ manifest.posts[id].first_downloaded <= manifest.posts[id].last_updated
    /\ storeLog.op = "updatePost"
       => /\ manifest.posts[storeLog.id].last_updated = storeLog.now
          /\ hasPost(storeLog.before, storeLog.id)
             => storeLog.before.posts[storeLog.id].last_updated < storeLog.now

\* A third updatePost call in a row on the same post, made after the first.
C12_Witness ==
    /\ storeLog.op = "updatePost"
    /\ storeLog.prevOp = "updatePost"
    /\ hasPost(storeLog.before, storeLog.id)
    /\ storeLog.before.posts[storeLog.id].first_downloaded
         < storeLog.before.posts[storeLog.id].last_updated
    /\ manifest.posts[storeLog.id].first_downloaded + 2 <= storeLog.now

\* C13: updatePost on an existing post record changes only last_updated and
\* the fields the call supplies; every other field of the existing record
\* keeps its previous value.
C13_UpsertMerge ==
    (storeLog.op = "updatePost" /\ hasPost(storeLog.before, storeLog.id))
    => \A f \in DOMAIN storeLog.before.posts[storeLog.id]
                 \ (DOMAIN storeLog.data \cup {"last_updated"}) :
          /\ f \in DOMAIN manifest.posts[storeLog.id]
          /\ manifest.posts[storeLog.id][f] = storeLog.before.posts[storeLog.id][f]

\* C14: after every updatePost call total_posts is the number of post ids in
\* manifest.posts, in memory and in the file written from it; updating a post
\* that has a record leaves the count as it was; no step of a run removes a
\* post record from the manifest, and no write removes one from the file.
C14_AggregateCount ==
    /\ [](/\ manifest.metadata.total_posts = Cardinality(DOMAIN manifest.posts)
          /\ disk.exists
             => disk.data.metadata.total_posts = Cardinality(DOMAIN disk.data.posts)
          /\ pc # "idle" => DOMAIN runStart.posts \subseteq DOMAIN manifest.posts)
    /\ [][/\ (pc \in {"update", "catch"} /\ pc' = "save")
             => manifest'.metadata.total_posts =
                  IF hasPost(manifest, cur)
                  THEN manifest.metadata.total_posts
                  ELSE manifest.metadata.total_posts + 1
          /\ (pc # "idle" /\ pc' # "idle")
             => DOMAIN manifest.posts \subseteq DOMAIN manifest'.posts
          /\ disk.exists
             => /\ disk'.exists
                /\ DOMAIN disk.data.posts \subseteq DOMAIN disk'.data.posts]_vars

\* A second run has updated again a post that the loaded manifest already
\* held, with both posts recorded.
C14_Witness ==
    /\ pc = "save"
    /\ ops[cur].update
    /\ hasPost(runStart, cur)
    /\ Cardinality(DOMAIN runStart.posts) = 2
    /\ manifest.metadata.total_posts = 2

\* A post record of status complete carries the path of the post's markdown
\* file.
CompleteHasPath(m) ==
    \A id \in DOMAIN m.posts :
        m.posts[id].status = "complete"
        => /\ "markdown_path" \in DOMAIN m.posts[id]
           /\ m.posts[id].markdown_path = getPostFilePath(id)

\* C15: in every manifest the pipeline reaches, in memory or in the file,
\* a post record of status complete carries a markdown_path, the one recorded
\* by the updatePost call that set it complete.
C15_CompleteHasArtifactPath ==
    /\ CompleteHasPath(manifest)
    /\ disk.exists => CompleteHasPath(disk.data)
    /\ \A id \in PostIds :
          finalRecord[id].status = "complete"
          => /\ "markdown_path" \in DOMAIN finalRecord[id]
             /\ finalRecord[id].markdown_path = getPostFilePath(id)

\* A second run has loaded a manifest holding a complete record and has
\* recorded another post complete.
C15_Witness ==
    /\ run = 2
    /\ \E id \in DOMAIN runStart.posts : runStart.posts[id].status = "complete"
    /\ \E id \in PostIds :
          /\ finalRecord[id].status = "complete"
          /\ disk.exists
          /\ id \in DOMAIN disk.data.posts
          /\ disk.data.posts[id] = stringifyRecord(finalRecord[id])

\* C16: loadManifest of a group whose manifest file does not exist returns,
\* without error, an empty manifest carrying the schema version (no posts, no
\* avatars, total_posts 0); loadManifest of a file that does not parse throws,
\* hands no manifest to the caller and leaves the file as it was.
C16_ManifestLoad ==
    storeLog.op = "loadManifest"
    => /\ disk = storeLog.diskBefore
       /\ storeLog.diskBefore = NoFile
          => /\ ~storeLog.threw
             /\ DOMAIN manifest.posts = {}
             /\ DOMAIN manifest.avatars = {}
             /\ manifest.metadata.total_posts = 0
             /\ manifest.metadata.version = ManifestVersion
       /\ storeLog.diskBefore = MalformedFile
          => /\ storeLog.threw
             /\ manifest = storeLog.before

\* A load of the missing file gave an empty manifest, a post was recorded and
\* saved, the file was then damaged and the next load threw.
C16_Witness ==
    /\ storeLog.op = "loadManifest"
    /\ storeLog.threw
    /\ storeLog.loaded
    /\ disk = MalformedFile
    /\ manifest.metadata.created_at = 1
    /\ manifest.metadata.last_run # Null
    /\ DOMAIN manifest.posts # {}

\* C18: loadManifest right after saveManifest returns a manifest equal to the
\* one handed to saveManifest, except for last_run, which holds the time of
\* the save.
C18_ManifestRoundTrip ==
    (storeLog.op = "loadManifest" /\ storeLog.prevOp = "saveManifest")
    => /\ ~storeLog.threw
       /\ manifest = [storeLog.saved EXCEPT
                        !.metadata.last_run = manifest.metadata.last_run]
       /\ manifest.metadata.last_run = storeLog.now - 1
       /\ manifest.metadata.last_run # storeLog.saved.metadata.last_run

\* C17: when the manifest of one group cannot be loaded, that group is not
\* processed and every other configured group is processed in the same run:
\* a run that ended without another failure has processed every group whose
\* manifest file can be loaded.
C17_CorruptionIsLocal ==
    (groupRun.pc \in {"done", "exit"} /\ groupRun.cause # "process")
    => \A name \in GroupNames :
          IF loadManifestThrows(groupRun.manifestFile[name])
          THEN name \notin groupRun.processed
          ELSE name \in groupRun.processed

\* The invocations of fn made so far that rejected.
Rejections == {k \in 1..Len(retry.outcomes) : ~retry.outcomes[k].ok}

\* C19: retryWithBackoff invokes fn at most maxRetries times; it returns the
\* value of the first invocation that resolves, which is then the last one
\* made; when every invocation rejected it throws, after maxRetries of them,
\* the error of the last invocation.
C19_RetryOutcome ==
    /\ Len(retry.outcomes) <= retry.opts.maxRetries
    /\ \A k \in 1..Len(retry.outcomes) :
          retry.outcomes[k].ok => (k = Len(retry.outcomes) /\ retry.pc = "done")
    /\ retry.result.kind = "return"
       => /\ Len(retry.outcomes) >= 1
          /\ retry.outcomes[Len(retry.outcomes)].ok
          /\ retry.result.value = retry.outcomes[Len(retry.outcomes)].value
    /\ retry.result.kind = "throw"
       => /\ Len(retry.outcomes) = retry.opts.maxRetries
          /\ Rejections = 1..Len(retry.outcomes)
          /\ Len(retry.outcomes) >= 1
             => retry.result.error = retry.outcomes[Len(retry.outcomes)].error
    /\ retry.pc = "done" => retry.result.kind \in {"return", "throw"}

\* Three invocations rejected, the first and the last with different errors,
\* and the call has thrown.
C19_Witness ==
    /\ retry.result.kind = "throw"
    /\ Len(retry.outcomes) = 3
    /\ retry.outcomes[1].error # retry.outcomes[3].error

\* C20: after the n-th rejected attempt, n counted from 0, that is not the
\* last attempt allowed, retryWithBackoff sleeps
\* min(initialDelay * factor^n, maxDelay); it does not sleep after the last
\* attempt allowed, nor after an attempt that resolved.
C20_RetryDelays ==
    /\ \A n \in 0..(Len(retry.sleeps) - 1) :
          retry.sleeps[n + 1] =
            IF retry.opts.initialDelay * (retry.opts.factor ^ n) < retry.opts.maxDelay
            THEN retry.opts.initialDelay * (retry.opts.factor ^ n)
            ELSE retry.opts.maxDelay
    /\ Len(retry.sleeps) =
          Cardinality({k \in Rejections : k < retry.opts.maxRetries})

\* The call threw after three rejections and two sleeps, the second one cut
\* down to maxDelay.
C20_Witness ==
    /\ retry.result.kind = "throw"
    /\ Len(retry.outcomes) = 3
    /\ Len(retry.sleeps) = 2
    /\ retry.sleeps[1] = retry.opts.initialDelay
    /\ retry.sleeps[2] = retry.opts.maxDelay
    /\ retry.opts.initialDelay * retry.opts.factor > retry.opts.maxDelay

ValuesOf(status) == {k \in 1..batch.n : batch.values[k].status = status}

\* C22: downloadMediaBatch resolves with exactly one result per item, the
\* item's own result at the item's position whatever the order of completion;
\* an item that fails permanently gives a failed result at its position, the
\* batch still resolves and the other items' results are what they are
\* without the failure: n items of which f fail give n - f success and f
\* failed.
C22_BatchResults ==
    batch.pc # "idle"
    => /\ DOMAIN batch.values = 1..batch.n
       /\ \A k \in 1..batch.n :
             batch.values[k] # NoValue
             => /\ batch.values[k].item = k
                /\ batch.values[k].status = "failed" <=> k \in batch.fails
                /\ batch.values[k].status = "success" <=> k \notin batch.fails
       /\ batch.pc = "returned"
          => /\ ValuesOf("failed") = batch.fails
             /\ Cardinality(ValuesOf("success"))
                  = batch.n - Cardinality(batch.fails)
             /\ ValuesOf("pending") = {}

\* The batch of ten items with two permanent failures: the eighth item has
\* settled, failed, while the first is still in flight.
C22_Witness ==
    /\ batch.n = 10
    /\ Cardinality(batch.fails) = 2
    /\ batch.values[8].status = "failed"
    /\ batch.values[1] = NoValue
    /\ 1 \in batch.active

\* C23: at every moment of a run at most one strategy that drives the shared
\* browser page is executing, and while one executes no media batch of the
\* unit is in flight, whatever the batch concurrency.
C23_SessionSerialized ==
    session.pc # "idle" =>
       LET pageRunning == session.running \cap PageStrategies
       IN  /\ Cardinality(session.running) <= 1
           /\ Cardinality(pageRunning) <= 1
           /\ pageRunning # {} => session.inFlight = {}

\* A page strategy executes in a unit whose image and video batches both ran.
C23_Witness ==
    /\ session.pc = "awaitStrategy"
    /\ session.hasImages /\ session.hasVideos
    /\ session.running \cap PageStrategies # {}

\* The call ran into a failure it has no fallback for: no page or a failed
\* navigation for the page downloaders; a rejected fetch, a status that is not
\* ok, or a failed write or rename for DirectFileDownloader.
FailureSeen(s) ==
    IF s.name = DirectFileDownloader.name
    THEN \/ s.env.fetch.kind = "error"
         \/ ~responseOk(s.env.fetch.status)
         \/ s.env.pipeline # "ok"
         \/ s.env.rename # "ok"
    ELSE ~s.env.hasPage \/ s.env.goto # "ok"

\* C24: whatever the network, the filesystem and the browser page answer,
\* download() of each built-in downloader returns a non-empty list of results
\* instead of throwing, and a list returned after a failure holds a failed
\* result.
C24_StrategiesNeverRaise ==
    strategy.pc \notin {"idle", "called"} =>
       /\ strategy.pc = "returned"
       /\ Len(strategy.outcome.results) >= 1
       /\ FailureSeen(strategy) =>
             \E k \in DOMAIN strategy.outcome.results :
                strategy.outcome.results[k].status = "failed"

\* The rename after a Direct-Fetch download failed and download() returned a
\* failed result carrying the error's message.
C24_Witness ==
    /\ strategy.pc = "returned"
    /\ strategy.name = DirectFileDownloader.name
    /\ strategy.env.fetch.kind = "response"
    /\ responseOk(strategy.env.fetch.status)
    /\ strategy.env.pipeline = "ok"
    /\ strategy.env.rename \in FsErrors
    /\ strategy.outcome.results[1].status = "failed"

\* C25: every success result a downloader returns has a non-empty local path
\* and a non-empty file name, and every failed result has a non-empty error.
C25_ResultInvariant ==
    strategy.pc = "returned" =>
       \A k \in DOMAIN strategy.outcome.results :
          LET r == strategy.outcome.results[k]
          IN  /\ r.status \in {"success", "failed"}
              /\ r.status = "success" =>
                    ~isEmptyString(r.localPath) /\ ~isEmptyString(r.filename)
              /\ r.status = "failed" => truthy(r.error)

\* An album download returned one success and one failed result.
C25_Witness ==
    /\ strategy.pc = "returned"
    /\ strategy.name = GooglePhotosDownloader.name
    /\ \E a, b \in DOMAIN strategy.outcome.results :
          /\ strategy.outcome.results[a].status = "success"
          /\ strategy.outcome.results[b].status = "failed"

\* C27: the extension of a Direct-Fetch result is the entry of the
\* type-to-extension table for the declared content-type, parameters and
\* letter case ignored; a missing or unknown type gives "bin"; the extension
\* is never empty.
C27_ExtensionMapping ==
    (strategy.pc = "returned" /\ strategy.name = DirectFileDownloader.name) =>
       \A k \in DOMAIN strategy.outcome.results :
          LET r == strategy.outcome.results[k]
              declared == IF strategy.env.fetch.hasType
                          THEN strategy.env.fetch.type ELSE ""
              baseType == baseTypeOf(declared)
              table == strategy.env.table
          IN  r.status = "success" =>
                 /\ r.filename[Len(r.filename)] # ""
                 /\ r.filename[Len(r.filename)] =
                       IF baseType \in DOMAIN table THEN table[baseType]
                       ELSE "bin"

\* C29: a Direct-Fetch download that hits a transient network fault (a
\* rejected fetch or a status that is not 2xx) is attempted more than once
\* before it is returned as a failed result.
C29_DirectFetchRetried ==
    (/\ strategy.pc = "returned"
     /\ strategy.name = DirectFileDownloader.name
     /\ \/ strategy.env.fetch.kind = "error"
        \/ ~responseOk(strategy.env.fetch.status)) =>
       strategy.fetches > 1

\* C26: DirectFileDownloader has priority 0, and its canHandle(url) is false
\* for every URL that a built-in downloader of higher priority can handle and
\* for every URL of a non-fetchable shape, and true for every other URL.
C26_DirectApplicability ==
    lastUrl # "" =>
       /\ getPriority(DirectFileDownloader) = 0
       /\ canHandle(DirectFileDownloader, lastUrl) =
             ~(\/ \E k \in 1..Len(ConstructorDownloaders) :
                     /\ getPriority(ConstructorDownloaders[k]) > 0
                     /\ canHandle(ConstructorDownloaders[k], lastUrl)
               \/ isNonDownloadableUrl(lastUrl))

\* C30: in downloadMedia the wait before the next attempt grows geometrically
\* with the number of failed attempts: every wait is longer than the one
\* before it and successive waits have a constant ratio.
C30_MediaBackoffExponential ==
    media.pc # "idle" =>
       /\ \A k \in 1..(Len(media.waits) - 1) :
             media.waits[k + 1] > media.waits[k]
       /\ \A k \in 1..(Len(media.waits) - 2) :
             media.waits[k + 1] * media.waits[k + 1] =
                media.waits[k] * media.waits[k + 2]

\* An event of the avatar log happened before another one.
Before(e, f) == e.run < f.run \/ (e.run = f.run /\ e.phase < f.phase)

\* C28: once the avatar of a display name has been recorded complete, no later
\* phase of the same run or of a later run downloads it again; a name whose
\* loaded record is failed is downloaded again in that run.
C28_AvatarDedupe ==
    avatarRun.pc # "idle" =>
       /\ \A r \in avatarRun.recorded : \A d \in avatarRun.downloads :
             (r.author = d.author) => ~Before(r, d)
       /\ avatarRun.pc \notin {"load", "phase25"} =>
             \A id \in PostIds :
                PostAuthor(id) \in avatarRun.failedAtLoad =>
                   \E d \in avatarRun.downloads :
                      d.author = PostAuthor(id) /\ d.run = avatarRun.run

(***************************************************************************)
(* C31: the progressive-scroll loop of an enumeration strategy stops only  *)
(* when 25 consecutive iterations found nothing new or when the ceiling of *)
(* 1000 iterations is reached, never on a single empty iteration.          *)
(***************************************************************************)
C31_ScrollTermination ==
    scroll.pc = "done" =>
        \/ scroll.emptyRun >= requiredConsecutiveNoNew
        \/ scroll.scrollAttempts = maxScrollAttempts

(***************************************************************************)
(* C32: when the counting loop has stopped, the collection holds every     *)
(* item the feed has shown, each inserted once; the loop stopped on the    *)
(* 25th iteration in a row that showed nothing new or at the ceiling; and  *)
(* for a feed of at most 40 items (40 * 25 <= 1000) an item is missing     *)
(* only if the feed showed nothing new for 25 iterations in a row.         *)
(***************************************************************************)
C32_ScrollCompleteness ==
    (scroll.pc = "done" /\ scroll.variant = "counting") =>
        /\ scroll.all = 1..scroll.shown
        /\ scroll.entries = scroll.shown
        /\ scroll.exit = "noNew" => scroll.emptyRun = requiredConsecutiveNoNew
        /\ scroll.exit = "ceiling" => scroll.emptyRun < requiredConsecutiveNoNew
        /\ (/\ scroll.total * requiredConsecutiveNoNew <= maxScrollAttempts
            /\ scroll.shown < scroll.total)
              => scroll.emptyRun >= requiredConsecutiveNoNew

\* A feed of 40 items whose items came one by one, each after 24 iterations
\* that showed nothing new: the last one is collected in the 1000th
\* iteration.
C32_Witness ==
    /\ scroll.pc = "done"
    /\ scroll.variant = "counting"
    /\ scroll.total = MaxFeed
    /\ scroll.exit = "ceiling"
    /\ scroll.all = 1..MaxFeed
    /\ scroll.entries = MaxFeed

(***************************************************************************)
(* C33: the enumeration returns exactly one result for every leaf file it  *)
(* discovered: the results that carry a file's URL are as many as the      *)
(* times extractItems listed that file.                                    *)
(***************************************************************************)
C33_OneResultPerLeaf ==
    tree.pc = "done" =>
        \A file \in Range(tree.discovered) :
            Cardinality({k \in 1..Len(tree.results) : tree.results[k].url = file})
                = CountIn(tree.discovered, file)

(***************************************************************************)
(* C34: every folder whose processing ended with an exception, a nested    *)
(* one included, is reported by a failed result in the returned list.      *)
(***************************************************************************)
C34_FailedContainerReported ==
    tree.pc = "done" =>
        \A folder \in tree.failedContainers :
            \E k \in 1..Len(tree.results) :
                /\ tree.results[k].status = "failed"
                /\ tree.results[k].url = folder

\* The names of the folders on the way from the root folder to the call at
\* position j of the stack, joined by "/".
RECURSIVE joinNames(_)
joinNames(names) ==
    IF Len(names) = 0 THEN <<>>
    ELSE IF Len(names) = 1 THEN names
    ELSE <<Head(names), "/">> \o joinNames(Tail(names))

chainOf(j) == [q \in 1..(j - 1) |-> FolderName(tree.stack[q + 1].folder)]

TreeDepthAndPaths ==
    /\ tree.pc = "run" =>
          \A j \in 1..Len(tree.stack) :
              /\ tree.stack[j].depth = j - 1
              /\ tree.stack[j].entered => tree.stack[j].depth < MAX_DEPTH
              /\ tree.stack[j].folderPath = joinNames(chainOf(j))
    /\ \A p \in tree.placed :
          /\ Len(p.chain) < MAX_DEPTH
          /\ Len(p.chain) > 0 =>
                p.localPath =
                    <<"out", "/2025/Mis Grupos/", GroupName, "/noviembre/",
                      "Images", "/">> \o joinNames(p.chain) \o <<"/">>
                    \o treeFilename(p.name)

(***************************************************************************)
(* C35: no folder at depth 10 or deeper is opened, the relative path of a  *)
(* nested folder is its parent's path joined with its name and is where    *)
(* its files are put, and the enumeration ends, also when folders list     *)
(* each other.                                                             *)
(***************************************************************************)
C35_BoundedRecursion == []TreeDepthAndPaths /\ <>(tree.pc = "done")

\* Two folders that list each other: a file of the folder reached at depth 9
\* has been saved and the enumeration has ended.
C35_Witness ==
    /\ tree.pc = "done"
    /\ tree.layout = "cycle"
    /\ \E p \in tree.placed : Len(p.chain) = MAX_DEPTH - 1

NativeSteps == {"press", "popup", "confirm", "saveAs"}

(***************************************************************************)
(* C36: the download from the page (Meta+d, the page that opens, the       *)
(* confirmation, saveAs) is started only after the request to the content  *)
(* endpoint has been made and has failed; the call returns one result for  *)
(* the URL, a success exactly when one of the two paths saved the file.    *)
(***************************************************************************)
C36_FallbackOrder ==
    /\ \A k \in 1..Len(fileRun.steps) :
          fileRun.steps[k] \in NativeSteps =>
              /\ fileRun.getError # NoError
              /\ fileRun.saved # "direct"
              /\ \E j \in 1..(k - 1) : fileRun.steps[j] = "get"
    /\ fileRun.pc = "done" =>
          /\ Len(fileRun.results) = 1
          /\ fileRun.results[1].url = fileRun.url
          /\ fileRun.results[1].status \in {"success", "failed"}
          /\ fileRun.results[1].status = "success" <=> fileRun.saved # "none"

\* The request failed with HTTP 404 and the download from the page saved
\* the file.
C36_Witness ==
    /\ fileRun.pc = "done"
    /\ fileRun.getError = httpMessage(404)
    /\ fileRun.steps = <<"goto", "get", "press", "popup", "confirm", "saveAs">>
    /\ fileRun.saved = "native"
    /\ fileRun.results[1].status = "success"

\* The call of DirectFileDownloader.download has returned for a response
\* that was ok, was served as text/html and was written and renamed.
HtmlDownloaded ==
    /\ strategy.pc = "returned"
    /\ strategy.name = DirectFileDownloader.name
    /\ isHtmlResponse(strategy.env.fetch)
    /\ responseOk(strategy.env.fetch.status)
    /\ strategy.env.pipeline = "ok"
    /\ strategy.env.rename = "ok"
    /\ strategy.env.content.readable

(***************************************************************************)
(* C37: a page served as HTML is discarded, with a failed result, exactly  *)
(* when its content is shorter than 50,000 characters and holds an error   *)
(* phrase, an app-store phrase, or fewer than 3 paragraphs with no article *)
(* and at least one navigation block; any other page is kept as a success. *)
(***************************************************************************)
C37_HtmlClassification ==
    HtmlDownloaded =>
        LET c == strategy.env.content
            unwanted ==
                /\ c.length < HtmlThreshold
                /\ \/ c.errorIndicator
                   \/ c.webAppIndicator
                   \/ c.p < 3 /\ c.article = 0 /\ c.nav >= 1
        IN  /\ unwanted =>
                /\ strategy.outcome.results[1].status = "failed"
                /\ strategy.files = {}
            /\ ~unwanted => strategy.outcome.results[1].status = "success"

(***************************************************************************)
(* C40: after DirectFileDownloader.download has returned a failed result   *)
(* no file of the download is left, neither the temporary one nor the      *)
(* final one; after a success the final file is the only one left.         *)
(***************************************************************************)
C40_NoLeftoverFiles ==
    (strategy.pc = "returned" /\ strategy.name = DirectFileDownloader.name) =>
        LET result == strategy.outcome.results[1]
        IN  /\ result.status = "failed" => strategy.files = {}
            /\ result.status = "success" => strategy.files = {result.localPath}

(***************************************************************************)
(* C38: every network attempt of downloadMedia is bounded by its timeout:  *)
(* as long as an attempt is under way, waiting for the response headers or *)
(* streaming the body to disk, the timer that aborts it is armed.          *)
(***************************************************************************)
C38_TimeoutBoundsAttempts ==
    (media.pc \in {"attempt", "streaming"} /\ media.attempt <= media.maxRetries)
        => timerArmed(media.pc)

(***************************************************************************)
(* C39: downloadMedia, for every maxRetries from 0 on, never throws, makes *)
(* at most maxRetries attempts, sleeps only between two attempts, and ends *)
(* with a success result or with a failed result that carries the message  *)
(* of the last error.                                                      *)
(***************************************************************************)
C39_MediaAttemptBound ==
    /\ media.pc # "thrown"
    /\ media.pc \in {"streaming", "waiting"} => media.attempt <= media.maxRetries
    /\ media.attempt <= media.maxRetries + 1
    /\ Len(media.waits) <= IF media.maxRetries = 0 THEN 0
                           ELSE media.maxRetries - 1
    /\ media.pc = "done" =>
          \/ media.result.status = "success"
          \/ /\ media.result.status = "failed"
             /\ media.result.error = media.lastError
             /\ media.lastError # NoError

====
